---- MODULE Spec2Model ----
(***************************************************************************)
(* The add_mod / mul_mod builtin runner of the VM                          *)
(* (vm/src/vm/runners/builtin_runner/modulo.rs): the N_WORDS limb codec,   *)
(* the input reader, the deducer fill_value, the fill engine fill_memory   *)
(* with its deduction loop, and run_additional_security_checks.            *)
(*                                                                         *)
(* Memory is the VM's write-once memory: a partial map from relocatable    *)
(* addresses <<segment, offset>> to cells.  A cell is <<"int", 0, v>> (a   *)
(* felt, read back through to_biguint as v) or <<"ptr", segment, offset>>; *)
(* an address outside the map's domain is an absent cell.                  *)
(*                                                                         *)
(* Every fallible function is an operator returning a record whose err     *)
(* field is "Ok", the name of the error it returns, or "Panic" where the   *)
(* Rust code panics (BigUint subtraction underflow, division by zero).     *)
(***************************************************************************)
EXTENDS Integers, Sequences, FiniteSets, TLC

VARIABLES
    memory,          \* the VM memory
    add_mod,         \* fill_memory's add_mod argument (Option of ptr, runner, index)
    mul_mod,         \* fill_memory's mul_mod argument
    pc,              \* position of the caller: "call", "loop", "done", "idle", "checked", "codec"
    add_mod_inputs,  \* fill_memory local: Inputs read from the add header
    mul_mod_inputs,  \* fill_memory local: Inputs read from the mul header
    add_mod_n,       \* fill_memory local: target of the add cursor
    mul_mod_n,       \* fill_memory local: target of the mul cursor
    add_mod_index,   \* fill_memory local: add cursor of the deduction loop
    mul_mod_index,   \* fill_memory local: mul cursor of the deduction loop
    result,          \* what fill_memory returned ("none" while it has not)
    deduced,         \* history: the <<side, index>> triples fill_value wrote an operand of
    last,            \* history: the last fill_value call of the loop and the memory before it
    sec,             \* the last run_additional_security_checks call and its result
    codec,           \* the codec calls of the codec specification and their results
    entry,           \* history: the memory the run started on
    air,             \* the last air_private_input call and what it returned
    scope,           \* the hint's execution scope: its variable 'value'
    py               \* the Python hint executor: its two threads and two channels

vars == <<memory, add_mod, mul_mod, pc, add_mod_inputs, mul_mod_inputs, add_mod_n,
          mul_mod_n, add_mod_index, mul_mod_index, result, deduced, last, sec, codec, entry, air, scope, py>>

----------------------------------------------------------------------------
(* Program constants *)

N_WORDS == 4
INPUT_CELLS == 7
VALUES_PTR_OFFSET == 4
OFFSETS_PTR_OFFSET == 5
N_OFFSET == 6
FILL_MEMORY_MAX == 100000

(* Bounds of the model *)

\* instance_def.word_bit_len of the runners (96 in the real layouts)
WordBitLen == 1
\* operand values initially stored in the values table range over 0..MaxVal
MaxVal == 2
\* instance_def.batch_size ranges over 1..MaxBatch
MaxBatch == 2
\* the first header's n is batch_size * k for k in 1..MaxInst (or 1)
MaxInst == 2

\* the hint code of the Python executor makes at most MaxOps requests
MaxOps == 2

----------------------------------------------------------------------------
(* Memory cells and the memory handle *)

Absent == <<"none", 0, 0>>
IntCell(v) == <<"int", 0, v>>
PtrCell(seg, off) == <<"ptr", seg, off>>

IsInt(cell) == cell[1] = "int"
IsPtr(cell) == cell[1] = "ptr"
IsAbsent(cell) == cell[1] = "none"

EmptyMemory == [a \in {} |-> Absent]

\* Relocatable + usize
AddrAdd(addr, i) == <<addr[1], addr[2] + i>>

\* Memory::get
Get(mem, addr) == IF addr \in DOMAIN mem THEN mem[addr] ELSE Absent

\* Memory::insert_as_accessed: the memory is write-once; writing the value a
\* cell already holds succeeds, writing another value fails.
insert_as_accessed(mem, addr, cell) ==
    IF addr \notin DOMAIN mem
    THEN [err |-> "Ok", mem |-> (addr :> cell) @@ mem]
    ELSE IF mem[addr] = cell
         THEN [err |-> "Ok", mem |-> mem]
         ELSE [err |-> "InconsistentMemory", mem |-> mem]

\* A sequence of insert_as_accessed calls, each followed by `?`: the first
\* failure is returned and the writes made before it stay.
RECURSIVE InsertAll(_, _)
InsertAll(mem, writes) ==
    IF writes = <<>>
    THEN [err |-> "Ok", mem |-> mem]
    ELSE LET r == insert_as_accessed(mem, Head(writes)[1], Head(writes)[2])
         IN  IF r.err # "Ok" THEN r ELSE InsertAll(r.mem, Tail(writes))

\* Memory::get_integer
get_integer(mem, addr) ==
    LET cell == Get(mem, addr)
    IN  IF IsAbsent(cell) THEN [err |-> "UnknownMemoryCell", v |-> 0]
        ELSE IF IsPtr(cell) THEN [err |-> "ExpectedInteger", v |-> 0]
        ELSE [err |-> "Ok", v |-> cell[3]]

\* usize::MAX, of 20 bits where the program's is of 64
UsizeMax == 1048575

\* Memory::get_usize: the integer of the cell, if it fits a usize
get_usize(mem, addr) ==
    IF IsInt(Get(mem, addr)) /\ Get(mem, addr)[3] > UsizeMax
    THEN [err |-> "Felt252ToUsizeConversion", v |-> 0]
    ELSE get_integer(mem, addr)

\* Memory::get_relocatable
get_relocatable(mem, addr) ==
    LET cell == Get(mem, addr)
    IN  IF IsAbsent(cell) THEN [err |-> "UnknownMemoryCell", ptr |-> <<0, 0>>]
        ELSE IF IsInt(cell) THEN [err |-> "ExpectedRelocatable", ptr |-> <<0, 0>>]
        ELSE [err |-> "Ok", ptr |-> <<cell[2], cell[3]>>]

----------------------------------------------------------------------------
(* The runner *)

ModBuiltinRunner(builtin_type, base, word_bit_len, batch_size) ==
    [builtin_type |-> builtin_type, base |-> base,
     word_bit_len |-> word_bit_len, batch_size |-> batch_size]

\* self.shift = 1 << word_bit_len
shift(self) == 2 ^ self.word_bit_len

\* self.shift_powers[i] = shift.pow(i)
shift_powers(self, i) == shift(self) ^ i

name(self) == IF self.builtin_type = "Mul" THEN "mul_mod_builtin" ELSE "add_mod_builtin"

\* Option<BigUint>::None
NoneValue == -1

ZeroWords == [i \in 1..N_WORDS |-> 0]

ReadResult(err, words, value, at, word, bits) ==
    [err |-> err, words |-> words, value |-> value, at |-> at, word |-> word, bits |-> bits]

\* read_n_words_value, from limb i on, with the words and the value so far
RECURSIVE ReadWordsFrom(_, _, _, _, _, _)
ReadWordsFrom(self, mem, addr, i, words, value) ==
    IF i = N_WORDS
    THEN ReadResult("Ok", words, value, addr, 0, 0)
    ELSE IF IsAbsent(Get(mem, AddrAdd(addr, i)))
    THEN ReadResult("Ok", words, NoneValue, AddrAdd(addr, i), 0, 0)
    ELSE IF IsPtr(Get(mem, AddrAdd(addr, i)))
    THEN ReadResult("ExpectedInteger", words, NoneValue, AddrAdd(addr, i), 0, 0)
    ELSE IF Get(mem, AddrAdd(addr, i))[3] >= shift(self)
    THEN ReadResult("WordExceedsModBuiltinWordBitLen", words, NoneValue,
                    AddrAdd(addr, i), Get(mem, AddrAdd(addr, i))[3], self.word_bit_len)
    ELSE ReadWordsFrom(self, mem, addr, i + 1,
                       [words EXCEPT ![i + 1] = Get(mem, AddrAdd(addr, i))[3]],
                       value + Get(mem, AddrAdd(addr, i))[3] * shift_powers(self, i))

\* A reader that takes a pointer for an absent cell
ReadPointerAsAbsent(self, mem, addr) ==
    LET r == ReadWordsFrom(self, mem, addr, 0, ZeroWords, 0)
    IN  IF r.err = "ExpectedInteger" THEN [r EXCEPT !.err = "Ok"] ELSE r

\* A reader that forgets the position of the limb
ReadNoPowers(self, mem, addr) ==
    LET sum == ReadWordsFrom(self, mem, addr, 0, ZeroWords, 0)
    IN  IF sum.err = "Ok" /\ sum.value # NoneValue
        THEN [sum EXCEPT !.value = sum.words[1] + sum.words[2] + sum.words[3] + sum.words[4]]
        ELSE sum

\* A reader that never checks a limb against shift
ReadNoBoundCheck(self, mem, addr) ==
    ReadWordsFrom([self EXCEPT !.word_bit_len = 4], mem, addr, 0, ZeroWords, 0)

\* read_n_words_value(&self, memory, addr) -> Result<([Felt252; N_WORDS], Option<BigUint>)>
read_n_words_value(self, mem, addr) == ReadWordsFrom(self, mem, addr, 0, ZeroWords, 0)

\* A writer that never reports what is left of the value
RECURSIVE WriteNoCheckFrom(_, _, _, _, _)
WriteNoCheckFrom(self, mem, addr, value, i) ==
    IF i = N_WORDS
    THEN [err |-> "Ok", mem |-> mem]
    ELSE LET w == insert_as_accessed(mem, AddrAdd(addr, i), IntCell(value % shift(self)))
         IN  IF w.err # "Ok" THEN w
             ELSE WriteNoCheckFrom(self, w.mem, addr, value \div shift(self), i + 1)

WriteNoCheck(self, mem, addr, value) == WriteNoCheckFrom(self, mem, addr, value, 0)

\* write_n_words_value from limb i on, with what is left of the value
RECURSIVE WriteWordsFrom(_, _, _, _, _)
WriteWordsFrom(self, mem, addr, value, i) ==
    IF i = N_WORDS
    THEN IF value # 0
         THEN [err |-> "WriteNWordsValueNotZero", mem |-> mem]
         ELSE [err |-> "Ok", mem |-> mem]
    ELSE LET w == insert_as_accessed(mem, AddrAdd(addr, i), IntCell(value % shift(self)))
         IN  IF w.err # "Ok" THEN w
             ELSE WriteWordsFrom(self, w.mem, addr, value \div shift(self), i + 1)

\* write_n_words_value(&self, memory, addr, value) -> Result<()>
write_n_words_value(self, mem, addr, value) == WriteWordsFrom(self, mem, addr, value, 0)

----------------------------------------------------------------------------
(* Inputs and the input reader *)

\* #[derive(Default)] struct Inputs
DefaultInputs ==
    [p |-> 0, p_values |-> ZeroWords, values_ptr |-> <<0, 0>>,
     offsets_ptr |-> <<0, 0>>, n |-> 0]

ReadInputsErr(err, at) == [err |-> err, inputs |-> DefaultInputs, at |-> at]

\* tests of read_inputs that look at p before n < 1
ReadInputsPFirst(values_ptr, offsets_ptr, n, p, addr) ==
    IF values_ptr.err # "Ok"
    THEN ReadInputsErr(values_ptr.err, AddrAdd(addr, VALUES_PTR_OFFSET))
    ELSE IF offsets_ptr.err # "Ok"
    THEN ReadInputsErr(offsets_ptr.err, AddrAdd(addr, OFFSETS_PTR_OFFSET))
    ELSE IF n.err # "Ok"
    THEN ReadInputsErr(n.err, AddrAdd(addr, N_OFFSET))
    ELSE IF p.err # "Ok"
    THEN ReadInputsErr(p.err, p.at)
    ELSE IF p.value = NoneValue
    THEN ReadInputsErr("ModBuiltinMissingValue", AddrAdd(addr, N_WORDS))
    ELSE IF n.v < 1
    THEN ReadInputsErr("ModBuiltinNLessThanOne", AddrAdd(addr, N_OFFSET))
    ELSE [err |-> "Ok",
          inputs |-> [p |-> p.value, p_values |-> p.words, values_ptr |-> values_ptr.ptr,
                      offsets_ptr |-> offsets_ptr.ptr, n |-> n.v],
          at |-> addr]

\* the tests of read_inputs on what its four reads returned, in the order of
\* the code: values_ptr, offsets_ptr, n, n < 1, then p
ReadInputsOf(values_ptr, offsets_ptr, n, p, addr) ==
    IF values_ptr.err # "Ok"
    THEN ReadInputsErr(values_ptr.err, AddrAdd(addr, VALUES_PTR_OFFSET))
    ELSE IF offsets_ptr.err # "Ok"
    THEN ReadInputsErr(offsets_ptr.err, AddrAdd(addr, OFFSETS_PTR_OFFSET))
    ELSE IF n.err # "Ok"
    THEN ReadInputsErr(n.err, AddrAdd(addr, N_OFFSET))
    ELSE IF n.v < 1
    THEN ReadInputsErr("ModBuiltinNLessThanOne", AddrAdd(addr, N_OFFSET))
    ELSE IF p.err # "Ok"
    THEN ReadInputsErr(p.err, p.at)
    ELSE IF p.value = NoneValue
    THEN ReadInputsErr("ModBuiltinMissingValue", AddrAdd(addr, N_WORDS))
    ELSE [err |-> "Ok",
          inputs |-> [p |-> p.value, p_values |-> p.words, values_ptr |-> values_ptr.ptr,
                      offsets_ptr |-> offsets_ptr.ptr, n |-> n.v],
          at |-> addr]

\* read_inputs(&self, memory, addr) -> Result<Inputs>
read_inputs(self, mem, addr) ==
    ReadInputsOf(get_relocatable(mem, AddrAdd(addr, VALUES_PTR_OFFSET)),
                 get_relocatable(mem, AddrAdd(addr, OFFSETS_PTR_OFFSET)),
                 get_usize(mem, AddrAdd(addr, N_OFFSET)),
                 read_n_words_value(self, mem, addr),
                 addr)

----------------------------------------------------------------------------
(* The memory-var reader *)

ValueErr(err, at) == [err |-> err, v |-> 0, at |-> at]

\* a compute_value that takes a missing operand for zero
ComputeValueOrZero(value, value_addr) ==
    IF value.err # "Ok" THEN ValueErr(value.err, value.at)
    ELSE IF value.value = NoneValue
    THEN [err |-> "Ok", v |-> 0, at |-> value_addr]
    ELSE [err |-> "Ok", v |-> value.value, at |-> value_addr]

\* compute_value once the operand is decoded: a missing limb is an error
ComputeValueOf(value, value_addr) ==
    IF value.err # "Ok" THEN ValueErr(value.err, value.at)
    ELSE IF value.value = NoneValue
    THEN ValueErr("ModBuiltinMissingValue", AddrAdd(value_addr, N_WORDS))
    ELSE [err |-> "Ok", v |-> value.value, at |-> value_addr]

\* compute_value once the offset is read
ComputeValueAt(self, mem, values_ptr, offset, offset_addr) ==
    IF offset.err # "Ok" THEN ValueErr(offset.err, offset_addr)
    ELSE ComputeValueOf(read_n_words_value(self, mem, AddrAdd(values_ptr, offset.v)),
                        AddrAdd(values_ptr, offset.v))

\* the closure compute_value of read_memory_vars
compute_value(self, mem, values_ptr, offsets_ptr, index_in_batch, index) ==
    ComputeValueAt(self, mem, values_ptr,
                   get_usize(mem, AddrAdd(offsets_ptr, index + 3 * index_in_batch)),
                   AddrAdd(offsets_ptr, index + 3 * index_in_batch))

VarsErr(err, at) == [err |-> err, a |-> 0, b |-> 0, c |-> 0, at |-> at]

\* `let a = compute_value(0)?; let b = compute_value(1)?; let c = compute_value(2)?`
ReadMemoryVarsOf(a, b, c) ==
    IF a.err # "Ok" THEN VarsErr(a.err, a.at)
    ELSE IF b.err # "Ok" THEN VarsErr(b.err, b.at)
    ELSE IF c.err # "Ok" THEN VarsErr(c.err, c.at)
    ELSE [err |-> "Ok", a |-> a.v, b |-> b.v, c |-> c.v, at |-> a.at]

\* read_memory_vars(&self, memory, values_ptr, offsets_ptr, index_in_batch)
\*   -> Result<(BigUint, BigUint, BigUint)>
read_memory_vars(self, mem, values_ptr, offsets_ptr, index_in_batch) ==
    ReadMemoryVarsOf(compute_value(self, mem, values_ptr, offsets_ptr, index_in_batch, 0),
                     compute_value(self, mem, values_ptr, offsets_ptr, index_in_batch, 1),
                     compute_value(self, mem, values_ptr, offsets_ptr, index_in_batch, 2))

----------------------------------------------------------------------------
(* Arithmetic *)

\* enum Operation
Operation(kind) == [kind |-> kind, p |-> 0]
DivMod(p) == [kind |-> "DivMod", p |-> p]

RECURSIVE Gcd(_, _)
Gcd(x, y) == IF y = 0 THEN x ELSE Gcd(y, x % y)

\* BigUint::mod_floor: division by zero panics
mod_floor(x, p) == IF p = 0 THEN [err |-> "Panic", v |-> 0] ELSE [err |-> "Ok", v |-> x % p]

\* the inverse of m modulo p, for m coprime to p > 0
Inverse(m, p) == CHOOSE x \in 0..(p - 1) : (m * x) % p = 1 % p

\* math_utils::div_mod_unsigned(n, m, p): n times the inverse of m modulo p;
\* fails when m has no inverse modulo p
div_mod_unsigned(n, m, p) ==
    IF Gcd(m, p) # 1
    THEN [err |-> "MathError", v |-> 0]
    ELSE mod_floor(n * (IF p = 0 THEN 0 ELSE Inverse(m, p)), p)

\* apply_op whose subtraction is the absolute difference
ApplyOpAbsSub(lhs, rhs, op) ==
    CASE op.kind = "Mul" -> [err |-> "Ok", v |-> lhs * rhs]
      [] op.kind = "Add" -> [err |-> "Ok", v |-> lhs + rhs]
      [] op.kind = "Sub" -> [err |-> "Ok", v |-> IF lhs < rhs THEN rhs - lhs ELSE lhs - rhs]
      [] op.kind = "DivMod" -> div_mod_unsigned(lhs, rhs, op.p)

\* apply_op(lhs, rhs, op) -> Result<BigUint, MathError>; BigUint subtraction
\* panics when the result would be negative
apply_op(lhs, rhs, op) ==
    CASE op.kind = "Mul" -> [err |-> "Ok", v |-> lhs * rhs]
      [] op.kind = "Add" -> [err |-> "Ok", v |-> lhs + rhs]
      [] op.kind = "Sub" -> IF lhs < rhs THEN [err |-> "Panic", v |-> 0]
                            ELSE [err |-> "Ok", v |-> lhs - rhs]
      [] op.kind = "DivMod" -> div_mod_unsigned(lhs, rhs, op.p)

\* a result of apply_op that is left unreduced
ModFloorSkipped(r, p) == IF r.err # "Ok" \/ p # 0 THEN r ELSE mod_floor(r.v, p)

\* `?.mod_floor(p)` on the result of apply_op
ModFloorOf(r, p) == IF r.err # "Ok" THEN r ELSE mod_floor(r.v, p)

\* apply_op(lhs, rhs, op)?.mod_floor(p)
apply_op_mod(lhs, rhs, op, p) == ModFloorOf(apply_op(lhs, rhs, op), p)

\* usize::saturating_sub
saturating_sub(x, y) == IF x > y THEN x - y ELSE 0

\* math_utils::safe_div_usize
safe_div_usize(x, y) ==
    IF y = 0 THEN [err |-> "DividedByZero", v |-> 0]
    ELSE IF x % y # 0 THEN [err |-> "SafeDivFail", v |-> 0]
    ELSE [err |-> "Ok", v |-> x \div y]

----------------------------------------------------------------------------
(* The fill engine: header replication and offset padding *)

\* the writes of an instance that keep the first header's offsets_ptr and n
InstanceWritesSame(self, instance_ptr, inputs, instance) ==
    [i \in 1..N_WORDS |-> <<AddrAdd(instance_ptr, i - 1), IntCell(inputs.p_values[i])>>]
    \o << <<AddrAdd(instance_ptr, VALUES_PTR_OFFSET),
            PtrCell(inputs.values_ptr[1], inputs.values_ptr[2])>>,
          <<AddrAdd(instance_ptr, OFFSETS_PTR_OFFSET),
            PtrCell(inputs.offsets_ptr[1], inputs.offsets_ptr[2])>>,
          <<AddrAdd(instance_ptr, N_OFFSET), IntCell(inputs.n)>> >>

\* the seven writes of fill_inputs for one instance, in the order of the code
InstanceWrites(self, instance_ptr, inputs, instance) ==
    [i \in 1..N_WORDS |-> <<AddrAdd(instance_ptr, i - 1), IntCell(inputs.p_values[i])>>]
    \o << <<AddrAdd(instance_ptr, VALUES_PTR_OFFSET),
            PtrCell(inputs.values_ptr[1], inputs.values_ptr[2])>>,
          <<AddrAdd(instance_ptr, OFFSETS_PTR_OFFSET),
            PtrCell(inputs.offsets_ptr[1],
                    inputs.offsets_ptr[2] + 3 * instance * self.batch_size)>>,
          <<AddrAdd(instance_ptr, N_OFFSET),
            IntCell(saturating_sub(inputs.n, instance * self.batch_size))>> >>

RECURSIVE FillInputsFrom(_, _, _, _, _, _)

\* after the writes of one instance: stop at a failure, else the next instance
FillInputsNext(self, w, builtin_ptr, inputs, instance, n_instances) ==
    IF w.err # "Ok" THEN w
    ELSE FillInputsFrom(self, w.mem, builtin_ptr, inputs, instance + 1, n_instances)

\* the loop `for instance in 1..n_instances` of fill_inputs from `instance` on
FillInputsFrom(self, mem, builtin_ptr, inputs, instance, n_instances) ==
    IF instance >= n_instances
    THEN [err |-> "Ok", mem |-> mem]
    ELSE FillInputsNext(self,
                        InsertAll(mem, InstanceWrites(self,
                                           AddrAdd(builtin_ptr, instance * INPUT_CELLS),
                                           inputs, instance)),
                        builtin_ptr, inputs, instance, n_instances)

\* a fill_inputs that rounds n / batch_size down
FillInputsOfRounded(self, mem, builtin_ptr, inputs, n_instances) ==
    FillInputsFrom(self, mem, builtin_ptr, inputs, 1, inputs.n \div self.batch_size)

\* fill_inputs once n / batch_size is computed
FillInputsOf(self, mem, builtin_ptr, inputs, n_instances) ==
    IF n_instances.err # "Ok"
    THEN [err |-> n_instances.err, mem |-> mem]
    ELSE FillInputsFrom(self, mem, builtin_ptr, inputs, 1, n_instances.v)

\* fill_inputs(&self, memory, builtin_ptr, inputs) -> Result<()>
fill_inputs(self, mem, builtin_ptr, inputs) ==
    IF inputs.n > FILL_MEMORY_MAX
    THEN [err |-> "FillMemoryMaxExceeded", mem |-> mem]
    ELSE FillInputsOf(self, mem, builtin_ptr, inputs,
                      safe_div_usize(inputs.n, self.batch_size))

RECURSIVE FillOffsetsFrom(_, _, _, _, _)

\* after the copies of one offset: stop at a failure, else the next offset
FillOffsetsNext(w, offsets_ptr, index, n_copies, i) ==
    IF w.err # "Ok" THEN w
    ELSE FillOffsetsFrom(w.mem, offsets_ptr, index, n_copies, i + 1)

\* copies written from the start of the table, whatever the index
OffsetCopiesFromStart(offsets_ptr, index, n_copies, i, offset) ==
    [copy_i \in 1..n_copies |->
        <<AddrAdd(offsets_ptr, 3 * (copy_i - 1) + i), offset>>]

\* the n_copies writes of offset i of the first triple
OffsetCopies(offsets_ptr, index, n_copies, i, offset) ==
    [copy_i \in 1..n_copies |->
        <<AddrAdd(offsets_ptr, 3 * (index + copy_i - 1) + i), offset>>]

\* the loop `for i in 0..3` of fill_offsets from offset i on
FillOffsetsFrom(mem, offsets_ptr, index, n_copies, i) ==
    IF i = 3
    THEN [err |-> "Ok", mem |-> mem]
    ELSE IF IsAbsent(Get(mem, AddrAdd(offsets_ptr, i)))
    THEN [err |-> "UnknownMemoryCell", mem |-> mem]
    ELSE FillOffsetsNext(InsertAll(mem, OffsetCopies(offsets_ptr, index, n_copies, i,
                                                     Get(mem, AddrAdd(offsets_ptr, i)))),
                         offsets_ptr, index, n_copies, i)

\* fill_offsets(&self, memory, offsets_ptr, index, n_copies) -> Result<()>
fill_offsets(self, mem, offsets_ptr, index, n_copies) ==
    IF n_copies = 0
    THEN [err |-> "Ok", mem |-> mem]
    ELSE FillOffsetsFrom(mem, offsets_ptr, index, n_copies, 0)

----------------------------------------------------------------------------
(* The deducer *)

ReadsErr(err, addresses, values) ==
    [err |-> err, addresses |-> addresses, values |-> values]

RECURSIVE FillValueReads(_, _, _, _, _, _, _)

\* operand i of the triple once it is decoded
FillValueReadOf(self, mem, inputs, index, i, addresses, values, addr, value) ==
    IF value.err # "Ok" THEN ReadsErr(value.err, addresses, values)
    ELSE FillValueReads(self, mem, inputs, index, i + 1,
                        Append(addresses, addr), Append(values, value.value))

\* operand i of the triple once its offset is read
FillValueReadAt(self, mem, inputs, index, i, addresses, values, offset) ==
    IF offset.err # "Ok" THEN ReadsErr(offset.err, addresses, values)
    ELSE FillValueReadOf(self, mem, inputs, index, i, addresses, values,
                         AddrAdd(inputs.values_ptr, offset.v),
                         read_n_words_value(self, mem, AddrAdd(inputs.values_ptr, offset.v)))

\* the loop `for i in 0..3` of fill_value, from operand i on: the addresses
\* and the values (NoneValue for a missing operand) of the triple
FillValueReads(self, mem, inputs, index, i, addresses, values) ==
    IF i = 3
    THEN ReadsErr("Ok", addresses, values)
    ELSE FillValueReadAt(self, mem, inputs, index, i, addresses, values,
                         get_integer(mem, AddrAdd(inputs.offsets_ptr, 3 * index + i)))

FillValueResult(err, ret, mem) == [err |-> err, ret |-> ret, mem |-> mem]

\* `self.write_n_words_value(..)?; Ok(true)`
FillValueWritten(w) ==
    IF w.err # "Ok" THEN FillValueResult(w.err, FALSE, w.mem)
    ELSE FillValueResult("Ok", TRUE, w.mem)

\* a deducing arm that returns true without the write
FillValueWriteSkipped(self, mem, value, addr) ==
    IF value.err # "Ok" THEN FillValueResult(value.err, FALSE, mem)
    ELSE FillValueResult("Ok", TRUE, mem)

\* one deducing arm of fill_value: the value computed, write it, return true
FillValueWrite(self, mem, value, addr) ==
    IF value.err # "Ok" THEN FillValueResult(value.err, FALSE, mem)
    ELSE FillValueWritten(write_n_words_value(self, mem, addr, value.v))

\* a match of fill_value whose last arm returns true
FillValueMatchAlwaysTrue(self, mem, inputs, r, op, inv_op) ==
    IF r.err # "Ok" THEN FillValueResult(r.err, FALSE, mem)
    ELSE IF r.values[1] # NoneValue /\ r.values[2] # NoneValue /\ r.values[3] = NoneValue
    THEN FillValueWrite(self, mem,
                        apply_op_mod(r.values[1], r.values[2], op, inputs.p),
                        r.addresses[3])
    ELSE IF r.values[1] # NoneValue /\ r.values[2] = NoneValue /\ r.values[3] # NoneValue
    THEN FillValueWrite(self, mem,
                        apply_op_mod(r.values[3], r.values[1], inv_op, inputs.p),
                        r.addresses[2])
    ELSE IF r.values[1] = NoneValue /\ r.values[2] # NoneValue /\ r.values[3] # NoneValue
    THEN FillValueWrite(self, mem,
                        apply_op_mod(r.values[3], r.values[2], inv_op, inputs.p),
                        r.addresses[1])
    ELSE FillValueResult("Ok", TRUE, mem)

\* a match of fill_value that deduces a and b with op where inv_op is due
FillValueMatchSameOp(self, mem, inputs, r, op, inv_op) ==
    IF r.err # "Ok" THEN FillValueResult(r.err, FALSE, mem)
    ELSE IF r.values[1] # NoneValue /\ r.values[2] # NoneValue /\ r.values[3] = NoneValue
    THEN FillValueWrite(self, mem,
                        apply_op_mod(r.values[1], r.values[2], op, inputs.p),
                        r.addresses[3])
    ELSE IF r.values[1] # NoneValue /\ r.values[2] = NoneValue /\ r.values[3] # NoneValue
    THEN FillValueWrite(self, mem,
                        apply_op_mod(r.values[3], r.values[1], op, inputs.p),
                        r.addresses[2])
    ELSE IF r.values[1] = NoneValue /\ r.values[2] # NoneValue /\ r.values[3] # NoneValue
    THEN FillValueWrite(self, mem,
                        apply_op_mod(r.values[3], r.values[2], op, inputs.p),
                        r.addresses[1])
    ELSE IF r.values[1] # NoneValue /\ r.values[2] # NoneValue /\ r.values[3] # NoneValue
    THEN FillValueResult("Ok", TRUE, mem)
    ELSE FillValueResult("Ok", FALSE, mem)

\* `match (a, b, c)` of fill_value on the operands r read
FillValueMatch(self, mem, inputs, r, op, inv_op) ==
    IF r.err # "Ok" THEN FillValueResult(r.err, FALSE, mem)
    ELSE IF r.values[1] # NoneValue /\ r.values[2] # NoneValue /\ r.values[3] = NoneValue
    THEN FillValueWrite(self, mem,
                        apply_op_mod(r.values[1], r.values[2], op, inputs.p),
                        r.addresses[3])
    ELSE IF r.values[1] # NoneValue /\ r.values[2] = NoneValue /\ r.values[3] # NoneValue
    THEN FillValueWrite(self, mem,
                        apply_op_mod(r.values[3], r.values[1], inv_op, inputs.p),
                        r.addresses[2])
    ELSE IF r.values[1] = NoneValue /\ r.values[2] # NoneValue /\ r.values[3] # NoneValue
    THEN FillValueWrite(self, mem,
                        apply_op_mod(r.values[3], r.values[2], inv_op, inputs.p),
                        r.addresses[1])
    ELSE IF r.values[1] # NoneValue /\ r.values[2] # NoneValue /\ r.values[3] # NoneValue
    THEN FillValueResult("Ok", TRUE, mem)
    ELSE FillValueResult("Ok", FALSE, mem)

\* fill_value(&self, memory, inputs, index, op, inv_op) -> Result<bool>
fill_value(self, mem, inputs, index, op, inv_op) ==
    FillValueMatch(self, mem, inputs,
                   FillValueReads(self, mem, inputs, index, 0, <<>>, <<>>), op, inv_op)

----------------------------------------------------------------------------
(* fill_memory *)

\* Option<(Relocatable, &ModBuiltinRunner, usize)>
None == [some |-> FALSE, ptr |-> <<0, 0>>, runner |-> ModBuiltinRunner("Add", 0, 0, 1),
         index |-> 0]
Some(ptr, runner, index) == [some |-> TRUE, ptr |-> ptr, runner |-> runner, index |-> index]

FillErr(err, mem) ==
    [err |-> err, mem |-> mem, inputs |-> DefaultInputs, n |-> 0]

\* `(add_mod_inputs, add_mod_index)` once fill_offsets returned
FillBuiltinPadded(arg, inputs, padded) ==
    IF padded.err # "Ok" THEN FillErr(padded.err, padded.mem)
    ELSE [err |-> "Ok", mem |-> padded.mem, inputs |-> inputs, n |-> arg.index]

\* fill_offsets once fill_inputs returned
FillBuiltinFilled(arg, inputs, filled) ==
    IF filled.err # "Ok" THEN FillErr(filled.err, filled.mem)
    ELSE FillBuiltinPadded(arg, inputs,
                           fill_offsets(arg.runner, filled.mem, inputs.offsets_ptr, arg.index,
                                        saturating_sub(inputs.n, arg.index)))

\* fill_inputs once read_inputs returned
FillBuiltinRead(mem, arg, inputs) ==
    IF inputs.err # "Ok" THEN FillErr(inputs.err, mem)
    ELSE FillBuiltinFilled(arg, inputs.inputs,
                           fill_inputs(arg.runner, mem, arg.ptr, inputs.inputs))

\* "Fill the inputs to the builtins" for one builtin: read_inputs, fill_inputs,
\* fill_offsets; Default::default() for an absent builtin
FillBuiltinInputs(mem, arg) ==
    IF ~arg.some THEN FillErr("Ok", mem)
    ELSE FillBuiltinRead(mem, arg, read_inputs(arg.runner, mem, arg.ptr))

EntryResult(err, mem, add, mul) == [err |-> err, mem |-> mem, add |-> add, mul |-> mul]

\* the mul builtin's inputs are filled
FillMemoryMul(a, m) == EntryResult(m.err, m.mem, a, m)

\* the add builtin's inputs are filled: then the mul builtin's
FillMemoryAdd(mul, a) ==
    IF a.err # "Ok" THEN EntryResult(a.err, a.mem, a, a)
    ELSE FillMemoryMul(a, FillBuiltinInputs(a.mem, mul))

\* an entry that makes neither test on its arguments
FillMemoryEntryUntested(mem, add, mul) == FillMemoryAdd(mul, FillBuiltinInputs(mem, add))

\* fill_memory up to its deduction loop
FillMemoryEntry(mem, add, mul) ==
    IF ~add.some /\ ~mul.some
    THEN EntryResult("FillMemoryNoBuiltinSet", mem, FillErr("Ok", mem), FillErr("Ok", mem))
    ELSE IF add.some /\ mul.some /\ add.runner.word_bit_len # mul.runner.word_bit_len
    THEN EntryResult("ModBuiltinsMismatchedInstanceDef", mem,
                     FillErr("Ok", mem), FillErr("Ok", mem))
    ELSE FillMemoryAdd(mul, FillBuiltinInputs(mem, add))

\* "Get one of the builtin runners"
mod_runner(add, mul) == IF add.some THEN add.runner ELSE mul.runner

\* the outcome of one iteration of the deduction loop: side is the cursor it
\* advances, call the side of the fill_value call that decided it
Iteration(err, mem, side, call) == [err |-> err, mem |-> mem, side |-> side, call |-> call]

\* a mul side that goes round the loop again when fill_value returned false
LoopMulTriedAgain(mul_try) ==
    IF mul_try.err # "Ok" THEN Iteration(mul_try.err, mul_try.mem, "none", "mul")
    ELSE IF mul_try.ret THEN Iteration("Ok", mul_try.mem, "mul", "mul")
    ELSE Iteration("Ok", mul_try.mem, "none", "mul")

\* the mul side's fill_value returned
LoopMulTried(mul_try) ==
    IF mul_try.err # "Ok" THEN Iteration(mul_try.err, mul_try.mem, "none", "mul")
    ELSE IF mul_try.ret THEN Iteration("Ok", mul_try.mem, "mul", "mul")
    ELSE Iteration("FillMemoryCoudNotFillTable", mul_try.mem, "none", "mul")

\* a mul side that is given up without a call of fill_value
LoopMulSideUntried(runner, mem, mul_inputs, mul_n, mul_index) ==
    Iteration("FillMemoryCoudNotFillTable", mem, "none", "add")

\* `else if mul_mod_index < mul_mod_n && fill_value(mul ..)? {..} else {return Err(..)}`
LoopMulSide(runner, mem, mul_inputs, mul_n, mul_index) ==
    IF mul_index < mul_n
    THEN LoopMulTried(fill_value(runner, mem, mul_inputs, mul_index,
                                 Operation("Mul"), DivMod(mul_inputs.p)))
    ELSE Iteration("FillMemoryCoudNotFillTable", mem, "none", "add")

\* an add side whose false ends the call, the mul side untried
LoopAddTriedAlone(runner, add_try, mul_inputs, mul_n, mul_index) ==
    IF add_try.err # "Ok" THEN Iteration(add_try.err, add_try.mem, "none", "add")
    ELSE IF add_try.ret THEN Iteration("Ok", add_try.mem, "add", "add")
    ELSE Iteration("FillMemoryCoudNotFillTable", add_try.mem, "none", "add")

\* the add side's fill_value returned
LoopAddTried(runner, add_try, mul_inputs, mul_n, mul_index) ==
    IF add_try.err # "Ok" THEN Iteration(add_try.err, add_try.mem, "none", "add")
    ELSE IF add_try.ret THEN Iteration("Ok", add_try.mem, "add", "add")
    ELSE LoopMulSide(runner, add_try.mem, mul_inputs, mul_n, mul_index)

\* a loop body that deduces the mul triples from the add header
LoopBodyOneHeader(runner, mem, add_inputs, add_n, add_index, mul_inputs, mul_n, mul_index) ==
    IF add_index < add_n
    THEN LoopAddTried(runner,
                      fill_value(runner, mem, add_inputs, add_index,
                                 Operation("Add"), Operation("Sub")),
                      add_inputs, mul_n, mul_index)
    ELSE LoopMulSide(runner, mem, add_inputs, mul_n, mul_index)

\* the body of `while add_mod_index < add_mod_n || mul_mod_index < mul_mod_n`
LoopBody(runner, mem, add_inputs, add_n, add_index, mul_inputs, mul_n, mul_index) ==
    IF add_index < add_n
    THEN LoopAddTried(runner,
                      fill_value(runner, mem, add_inputs, add_index,
                                 Operation("Add"), Operation("Sub")),
                      mul_inputs, mul_n, mul_index)
    ELSE LoopMulSide(runner, mem, mul_inputs, mul_n, mul_index)

----------------------------------------------------------------------------
(* run_additional_security_checks *)

CheckResult(err, field, instance, batch) ==
    [err |-> err, field |-> field, instance |-> instance, batch |-> batch]

\* a checker that takes every runner for an add_mod runner
CheckedOpAdd(self) == Operation("Add")

\* `match self.builtin_type`
CheckedOp(self) == IF self.builtin_type = "Add" THEN Operation("Add") ELSE Operation("Mul")

RECURSIVE CheckBatchFrom(_, _, _, _, _)

\* `if a_op_b != c.mod_floor(&inputs.p)` on the computed a op b mod p
CheckTripleOf(self, mem, inputs, instance, index_in_batch, a_op_b, c) ==
    IF a_op_b.err # "Ok"
    THEN CheckResult(a_op_b.err, "", instance, index_in_batch)
    ELSE IF a_op_b.v # mod_floor(c, inputs.p).v
    THEN CheckResult("ModBuiltinSecurityCheck", "a op b == c (mod p)",
                     instance, index_in_batch)
    ELSE CheckBatchFrom(self, mem, inputs, instance, index_in_batch + 1)

\* one triple of the batch once read_memory_vars returned
CheckTriple(self, mem, inputs, instance, index_in_batch, abc) ==
    IF abc.err # "Ok"
    THEN CheckResult(abc.err, "", instance, index_in_batch)
    ELSE CheckTripleOf(self, mem, inputs, instance, index_in_batch,
                       apply_op_mod(abc.a, abc.b, CheckedOp(self), inputs.p), abc.c)

\* the loop `for index_in_batch in 0..batch_size` of one instance
CheckBatchFrom(self, mem, inputs, instance, index_in_batch) ==
    IF index_in_batch >= self.batch_size
    THEN CheckResult("Ok", "", instance, 0)
    ELSE CheckTriple(self, mem, inputs, instance, index_in_batch,
                     read_memory_vars(self, mem, inputs.values_ptr, inputs.offsets_ptr,
                                      index_in_batch))

\* the cross-instance tests that skip the test of n
CrossInstanceNoN(self, inputs, prev_inputs, instance) ==
    IF \E i \in 1..N_WORDS : inputs.p_values[i] # prev_inputs.p_values[i]
    THEN CheckResult("ModBuiltinSecurityCheck", "p_values", instance, 0)
    ELSE IF inputs.values_ptr # prev_inputs.values_ptr
    THEN CheckResult("ModBuiltinSecurityCheck", "values_ptr", instance, 0)
    ELSE IF inputs.offsets_ptr # AddrAdd(prev_inputs.offsets_ptr, 3 * self.batch_size)
    THEN CheckResult("ModBuiltinSecurityCheck", "offsets_ptr", instance, 0)
    ELSE CheckResult("Ok", "", instance, 0)

\* the cross-instance tests of one instance against the previous one
CrossInstance(self, inputs, prev_inputs, instance) ==
    IF \E i \in 1..N_WORDS : inputs.p_values[i] # prev_inputs.p_values[i]
    THEN CheckResult("ModBuiltinSecurityCheck", "p_values", instance, 0)
    ELSE IF inputs.values_ptr # prev_inputs.values_ptr
    THEN CheckResult("ModBuiltinSecurityCheck", "values_ptr", instance, 0)
    ELSE IF inputs.offsets_ptr # AddrAdd(prev_inputs.offsets_ptr, 3 * self.batch_size)
    THEN CheckResult("ModBuiltinSecurityCheck", "offsets_ptr", instance, 0)
    ELSE IF inputs.n # saturating_sub(prev_inputs.n, self.batch_size)
    THEN CheckResult("ModBuiltinSecurityCheck", "n", instance, 0)
    ELSE CheckResult("Ok", "", instance, 0)

RECURSIVE CheckInstancesFrom(_, _, _, _, _)

\* the batch of the instance is checked: then the next instance
CheckedBatch(self, mem, instance, n_instances, inputs, batch) ==
    IF batch.err # "Ok" THEN batch
    ELSE CheckInstancesFrom(self, mem, instance + 1, n_instances, inputs)

\* the cross-instance tests are made: then the batch
CheckedCross(self, mem, instance, n_instances, inputs, cross) ==
    IF cross.err # "Ok" THEN cross
    ELSE CheckedBatch(self, mem, instance, n_instances, inputs,
                      CheckBatchFrom(self, mem, inputs, instance, 0))

\* a header that is never tested against the previous one
CheckedInputsNoCross(self, mem, instance, n_instances, prev_inputs, inputs) ==
    IF inputs.err # "Ok"
    THEN CheckResult(inputs.err, "", instance, 0)
    ELSE CheckedCross(self, mem, instance, n_instances, inputs.inputs,
                      CheckResult("Ok", "", instance, 0))

\* the header of the instance is read: then the cross-instance tests
CheckedInputs(self, mem, instance, n_instances, prev_inputs, inputs) ==
    IF inputs.err # "Ok"
    THEN CheckResult(inputs.err, "", instance, 0)
    ELSE CheckedCross(self, mem, instance, n_instances, inputs.inputs,
                      IF instance # 0 /\ prev_inputs.n > self.batch_size
                      THEN CrossInstance(self, inputs.inputs, prev_inputs, instance)
                      ELSE CheckResult("Ok", "", instance, 0))

\* a loop over the instances that nothing follows
CheckInstancesNoLast(self, mem, instance, n_instances, prev_inputs) ==
    IF instance >= n_instances
    THEN CheckResult("Ok", "", n_instances, 0)
    ELSE CheckedInputs(self, mem, instance, n_instances, prev_inputs,
                       read_inputs(self, mem, <<self.base, instance * INPUT_CELLS>>))

\* the loop `for instance in 0..n_instances` and the test that follows it
CheckInstancesFrom(self, mem, instance, n_instances, prev_inputs) ==
    IF instance >= n_instances
    THEN IF n_instances # 0 /\ prev_inputs.n # self.batch_size
         THEN CheckResult("ModBuiltinSecurityCheck", "prev_inputs.n != batch_size",
                          n_instances, 0)
         ELSE CheckResult("Ok", "", n_instances, 0)
    ELSE CheckedInputs(self, mem, instance, n_instances, prev_inputs,
                       read_inputs(self, mem, <<self.base, instance * INPUT_CELLS>>))

\* a division that rounds down
DivFloor(x, y) == x \div y

\* num_integer::div_ceil
div_ceil(x, y) == (x + y - 1) \div y

\* run_additional_security_checks(&self, vm) -> Result<()>; segment_size is
\* vm.get_segment_used_size(self.base), NoneValue when the sizes are not known
run_additional_security_checks(self, mem, segment_size) ==
    IF segment_size = NoneValue
    THEN CheckResult("MissingSegmentUsedSizes", "", 0, 0)
    ELSE CheckInstancesFrom(self, mem, 0, div_ceil(segment_size, INPUT_CELLS), DefaultInputs)

----------------------------------------------------------------------------
(* air_private_input *)

\* (Relocatable + usize).unwrap_or_default(): the address (0, 0) when the
\* offset would not fit a usize
AddOrDefault(ptr, i) == IF ptr[2] + i > UsizeMax THEN <<0, 0>> ELSE AddrAdd(ptr, i)

\* the closure fetch_offset_and_words; every read is unwrap_or_default, and
\* offset + i is taken as a build without overflow checks computes it
fetch_offset_and_words(mem, values_ptr, offsets_ptr, var_index, index_in_batch) ==
    LET offset == get_usize(mem, AddOrDefault(offsets_ptr, 3 * index_in_batch + var_index)).v
    IN  [offset |-> offset,
         words |-> [i \in 1..N_WORDS |->
                       get_integer(mem, AddOrDefault(values_ptr,
                                                     (offset + (i - 1)) % (UsizeMax + 1))).v]]

\* the ModInputInstance pushed for one instance
ModInputInstance(self, mem, instance) ==
    LET values_ptr ==
            get_relocatable(mem, <<self.base, instance * INPUT_CELLS + VALUES_PTR_OFFSET>>).ptr
        offsets_ptr ==
            get_relocatable(mem, <<self.base, instance * INPUT_CELLS + OFFSETS_PTR_OFFSET>>).ptr
    IN  [index |-> instance,
         p_values |-> [i \in 1..N_WORDS |->
                          get_integer(mem, <<self.base, instance * INPUT_CELLS + (i - 1)>>).v],
         values_ptr |-> values_ptr,
         offsets_ptr |-> offsets_ptr,
         n |-> get_usize(mem, <<self.base, instance * INPUT_CELLS + N_OFFSET>>).v,
         batch |-> [index_in_batch \in 0..(self.batch_size - 1) |->
                       [var_index \in 0..2 |->
                           fetch_offset_and_words(mem, values_ptr, offsets_ptr,
                                                  var_index, index_in_batch)]]]

\* `offset + i` exceeds usize::MAX for some word of some operand of the first
\* `count` instances
AddOverflows(self, mem, count) ==
    \E instance \in 0..(count - 1) : \E index_in_batch \in 0..(self.batch_size - 1) :
        \E var_index \in 0..2 :
            ModInputInstance(self, mem, instance).batch[index_in_batch][var_index].offset
                + (N_WORDS - 1) > UsizeMax

\* air_private_input(&self, segments) -> Vec<PrivateInput>: the instances of
\* the one ModInput returned.  segment_size is NoneValue when the used sizes
\* are not known; in a build with overflow checks `offset + i` panics where a
\* build without them wraps.
air_private_input(self, mem, segment_size, overflow_checks) ==
    LET count == (IF segment_size = NoneValue THEN 0 ELSE segment_size) \div INPUT_CELLS
    IN  IF overflow_checks /\ AddOverflows(self, mem, count)
        THEN [err |-> "Panic", instances |-> <<>>]
        ELSE [err |-> "Ok",
              instances |-> [k \in 1..count |-> ModInputInstance(self, mem, k - 1)]]

----------------------------------------------------------------------------
(* The hint ec_negate (src/vm/hints/secp/ec_utils.rs) *)

\* secp_utils::SECP_P, the field prime vm_proxy.prime and the limb base 2^86
\* of pack, each scaled down: a prime, an odd prime and a power of two
SECP_P == 23
PRIME == 11
BASE == 4

\* secp_utils::pack(d0, d1, d2, prime): the limbs, each read as the signed
\* integer the felt stands for, in base BASE
pack(d0, d1, d2, prime) ==
    (IF d0 > prime \div 2 THEN d0 - prime ELSE d0)
    + (IF d1 > prime \div 2 THEN d1 - prime ELSE d1) * BASE
    + (IF d2 > prime \div 2 THEN d2 - prime ELSE d2) * BASE * BASE

\* secp_utils::pack_from_relocatable(rel, vm_proxy): pack of the three
\* integers at rel, rel + 1, rel + 2
pack_from_relocatable(mem, rel) ==
    IF get_integer(mem, rel).err # "Ok"
    THEN [err |-> get_integer(mem, rel).err, v |-> 0]
    ELSE IF get_integer(mem, AddrAdd(rel, 1)).err # "Ok"
    THEN [err |-> get_integer(mem, AddrAdd(rel, 1)).err, v |-> 0]
    ELSE IF get_integer(mem, AddrAdd(rel, 2)).err # "Ok"
    THEN [err |-> get_integer(mem, AddrAdd(rel, 2)).err, v |-> 0]
    ELSE [err |-> "Ok",
          v |-> pack(get_integer(mem, rel).v, get_integer(mem, AddrAdd(rel, 1)).v,
                     get_integer(mem, AddrAdd(rel, 2)).v, PRIME)]

\* a negation by the remainder that takes the sign of -y
EcNegateRem(mem, point) ==
    LET y == pack_from_relocatable(mem, AddrAdd(point, 3))
    IN  IF y.err # "Ok" THEN [err |-> y.err, value |-> NoneValue]
        ELSE [err |-> "Ok",
              value |-> IF y.v > 0 THEN 0 - (y.v % SECP_P) ELSE (0 - y.v) % SECP_P]

\* ec_negate(vm_proxy, exec_scopes_proxy, ids, hint_ap_tracking): the value it
\* inserts in the scope as 'value'; point is the address ids.point resolves to
ec_negate(mem, point) ==
    LET y == pack_from_relocatable(mem, AddrAdd(point, 3))
    IN  IF y.err # "Ok" THEN [err |-> y.err, value |-> NoneValue]
        ELSE [err |-> "Ok", value |-> mod_floor(0 - y.v, SECP_P).v]

----------------------------------------------------------------------------
(* Initial memories: the layout guest code prepares before fill_memory *)

\* where the builtin segments and the tables live
AddPtr == <<0, 0>>
MulPtr == <<1, 0>>
ValuesPtr == <<2, 0>>
AddOffsetsPtr == <<3, 0>>
MulOffsetsPtr == <<4, 0>>

\* the moduli of the headers: a prime, a composite and zero
Moduli == {0, 3, 4}

\* the value slots of the values table; slot s is at offset N_WORDS * s
Slots == 0..3

\* the limbs of a value, least significant first
Limbs(v, bits) == [i \in 1..N_WORDS |-> (v \div ((2 ^ bits) ^ (i - 1))) % (2 ^ bits)]

\* the cells of a function from offsets to cells, placed at ptr
CellsAt(ptr, cells) ==
    [a \in {AddrAdd(ptr, o) : o \in DOMAIN cells} |-> cells[a[2] - ptr[2]]]

\* a header of seven cells
HeaderCells(p, bits, values_ptr, offsets_ptr, n) ==
    [o \in 0..(INPUT_CELLS - 1) |->
        IF o < N_WORDS THEN IntCell(Limbs(p, bits)[o + 1])
        ELSE IF o = VALUES_PTR_OFFSET THEN PtrCell(values_ptr[1], values_ptr[2])
        ELSE IF o = OFFSETS_PTR_OFFSET THEN PtrCell(offsets_ptr[1], offsets_ptr[2])
        ELSE IntCell(n)]

\* the offsets table of a style: its triples 0 and 1, repeated, as slots
TableStyles ==
    [chain |-> << <<0, 1, 2>>, <<1, 2, 3>> >>,
     link  |-> << <<2, 0, 3>>, <<0, 1, 2>> >>,
     alias |-> << <<0, 0, 1>>, <<1, 0, 2>> >>,
     part  |-> << <<2, 2, 3>>, <<0, 1, 2>> >>]

\* an offsets table of `triples` triples
OffsetCells(style, triples) ==
    [o \in 0..(3 * triples - 1) |->
        IntCell(N_WORDS * TableStyles[style][((o \div 3) % 2) + 1][(o % 3) + 1])]

\* the values table of a row: row[s + 1] is the value of slot s, or NoneValue
ValueCells(row, bits) ==
    [o \in {N_WORDS * s + i : s \in {t \in Slots : row[t + 1] # NoneValue},
                              i \in 0..(N_WORDS - 1)} |->
        IntCell(Limbs(row[(o \div N_WORDS) + 1], bits)[(o % N_WORDS) + 1])]

\* rows of the values table met with the longer tables
ValueRows ==
    { <<1, 2, NoneValue, NoneValue>>,
      <<NoneValue, 2, 1, NoneValue>>,
      <<NoneValue, 1, 2, NoneValue>>,
      <<1, NoneValue, 2, 2>>,
      <<1, 2, 0, 2>>,
      <<1, 2, 1, NoneValue>>,
      <<NoneValue, NoneValue, 1, NoneValue>>,
      <<1, 2, 0, 1>> }

\* every row whose slots 0..2 are absent or hold a value of 0..MaxVal
SmallRows ==
    { <<r[1], r[2], r[3], NoneValue>> : r \in [1..3 -> {NoneValue} \cup 0..MaxVal] }

Max(x, y) == IF x > y THEN x ELSE y

\* the first header's n: a multiple of batch_size, one, and for batch_size 1
\* the two values read_inputs and fill_inputs reject
NChoices(bs) ==
    {bs * k : k \in 1..MaxInst} \cup {1}
    \cup (IF bs = 1 THEN {0, FILL_MEMORY_MAX + 1} ELSE {})

\* the configuration of one builtin of a scenario
SideCfg(present, p, bs, n, index, style, bits) ==
    [present |-> present, p |-> p, bs |-> bs, n |-> n, index |-> index,
     style |-> style, bits |-> bits]

NoSide == SideCfg(FALSE, 0, 1, 1, 0, "chain", WordBitLen)

\* one builtin, one triple, every small row
OneTripleSides ==
    { SideCfg(TRUE, p, 1, 1, 1, style, WordBitLen) :
        p \in Moduli, style \in {"chain", "alias"} }

\* one builtin, every shape of n, batch_size and index
ShapedSides ==
    UNION { { SideCfg(TRUE, 3, bs, n, index, "chain", WordBitLen) :
                index \in {i \in 0..(MaxBatch * MaxInst) : i <= n} } :
            bs \in 1..MaxBatch, n \in UNION {NChoices(b) : b \in 1..MaxBatch} }

\* the shapes of a builtin that runs beside the other one
PairedSides(styles) ==
    { SideCfg(TRUE, p, bs, bs * k, bs * k, style, WordBitLen) :
        p \in {3, 4}, bs \in 1..MaxBatch, k \in 1..MaxInst, style \in styles }

Scenario(add, mul, row) == [add |-> add, mul |-> mul, row |-> row]

\* a builtin whose first header's n fill_inputs rejects
RejectedSides ==
    { SideCfg(TRUE, 3, 1, FILL_MEMORY_MAX + 1, 1, "chain", WordBitLen),
      SideCfg(TRUE, 3, MaxBatch, FILL_MEMORY_MAX + 1, 1, "chain", WordBitLen),
      SideCfg(TRUE, 3, MaxBatch, MaxBatch + 1, 1, "chain", WordBitLen) }

Scenarios ==
    { Scenario(s, NoSide, row) : s \in OneTripleSides, row \in SmallRows }
    \cup { Scenario(NoSide, s, row) : s \in OneTripleSides, row \in SmallRows }
    \cup { Scenario(s, NoSide, row) : s \in ShapedSides, row \in ValueRows }
    \cup { Scenario(NoSide, s, row) : s \in ShapedSides, row \in ValueRows }
    \cup { Scenario(a, m, row) : a \in PairedSides({"chain", "link"}),
                                 m \in PairedSides({"chain"}), row \in ValueRows }
    \cup { Scenario(NoSide, NoSide, row) : row \in ValueRows }
    \cup { Scenario(SideCfg(TRUE, 3, 1, 2, 1, "chain", WordBitLen), m, row) :
             m \in RejectedSides, row \in ValueRows }
    \cup { Scenario(a, m, row) :
             a \in {NoSide, SideCfg(TRUE, 3, 1, 2, 2, "part", WordBitLen)},
             m \in {NoSide, SideCfg(TRUE, 3, 1, 2, 2, "part", WordBitLen)},
             row \in ValueRows }
    \cup { Scenario(SideCfg(TRUE, 3, 1, 1, 1, "chain", WordBitLen),
                    SideCfg(TRUE, 3, 1, 1, 1, "chain", WordBitLen + 1), row) :
             row \in ValueRows }

\* the memory of a scenario
SideMemory(side, ptr, offsets_ptr) ==
    IF side.present
    THEN CellsAt(ptr, HeaderCells(side.p, side.bits, ValuesPtr, offsets_ptr, side.n))
         @@ CellsAt(offsets_ptr, OffsetCells(side.style, Max(side.index, 1)))
    ELSE EmptyMemory

ScenarioMemory(sc) ==
    SideMemory(sc.add, AddPtr, AddOffsetsPtr)
    @@ SideMemory(sc.mul, MulPtr, MulOffsetsPtr)
    @@ CellsAt(ValuesPtr, ValueCells(sc.row, WordBitLen))

\* the limbs a scenario may lack of operands that are otherwise in memory: none,
\* or for one builtin with one triple a limb of a or of c
PartialLimbs(sc) ==
    IF \E s \in {sc.add, sc.mul} :
          s = SideCfg(TRUE, 3, 1, 1, 1, "chain", WordBitLen) /\ {sc.add, sc.mul} = {s, NoSide}
    THEN {{}} \cup {{AddrAdd(ValuesPtr, o)} : o \in {1, 2 * N_WORDS, 3 * N_WORDS - 1}}
    ELSE {{}}

\* the argument of fill_memory for one builtin of a scenario
SideArg(side, builtin_type, ptr) ==
    IF side.present
    THEN Some(ptr, ModBuiltinRunner(builtin_type, ptr[1], side.bits, side.bs), side.index)
    ELSE None

NoCall == [side |-> "none", index |-> 0, before |-> EmptyMemory, err |-> "none", advanced |-> FALSE]
NoCheck == [runner |-> ModBuiltinRunner("Add", 0, 0, 1), size |-> 0,
            res |-> CheckResult("none", "", 0, 0)]
NoCodec == [phase |-> "none", addr |-> <<0, 0>>, v |-> 0, before |-> EmptyMemory,
            wres |-> "none", rres |-> read_n_words_value(ModBuiltinRunner("Add", 0, 0, 1),
                                                         EmptyMemory, <<0, 0>>)]
NoResult == [err |-> "none", add_mod_index |-> 0, mul_mod_index |-> 0]
NoAir == [size |-> 0, overflow_checks |-> FALSE, res |-> [err |-> "none", instances |-> <<>>]]
NoScope == [value |-> NoneValue, err |-> "none"]

\* no hint is being executed by the Python executor
NoPy == [python |-> "none", vm |-> "none", hint |-> "none", code |-> <<>>,
         operations |-> <<>>, results |-> <<>>, sent |-> <<>>, received |-> 0,
         num_segments |-> 0]

----------------------------------------------------------------------------
(* The run: fill_memory, then the security checks *)

Init ==
    \E sc \in Scenarios : \E limbs \in PartialLimbs(sc) :
        /\ memory = [a \in DOMAIN ScenarioMemory(sc) \ limbs |-> ScenarioMemory(sc)[a]]
        /\ add_mod = SideArg(sc.add, "Add", AddPtr)
        /\ mul_mod = SideArg(sc.mul, "Mul", MulPtr)
        /\ pc = "call"
        /\ add_mod_inputs = DefaultInputs
        /\ mul_mod_inputs = DefaultInputs
        /\ add_mod_n = 0
        /\ mul_mod_n = 0
        /\ add_mod_index = 0
        /\ mul_mod_index = 0
        /\ result = NoResult
        /\ deduced = {}
        /\ last = NoCall
        /\ sec = NoCheck
        /\ codec = NoCodec
        /\ entry = memory
        /\ air = NoAir
        /\ scope = NoScope
        /\ py = NoPy

\* the state after fill_memory ran up to its deduction loop with outcome e
CallStep(e) ==
    /\ memory' = e.mem
    /\ add_mod_inputs' = e.add.inputs
    /\ mul_mod_inputs' = e.mul.inputs
    /\ add_mod_n' = (IF e.err = "Ok" THEN e.add.n ELSE 0)
    /\ mul_mod_n' = (IF e.err = "Ok" THEN e.mul.n ELSE 0)
    /\ pc' = (IF e.err = "Ok" THEN "loop" ELSE "done")
    /\ result' = (IF e.err = "Ok" THEN NoResult ELSE [NoResult EXCEPT !.err = e.err])

\* fill_memory is called and runs up to its deduction loop
FillMemoryCall ==
    /\ pc = "call"
    /\ CallStep(FillMemoryEntry(memory, add_mod, mul_mod))
    /\ UNCHANGED <<add_mod, mul_mod, add_mod_index, mul_mod_index, deduced, last, sec, codec, entry, air, scope, py>>

\* the state after an iteration of the deduction loop with outcome it
LoopStep(it, index) ==
    /\ memory' = it.mem
    /\ add_mod_index' = (IF it.side = "add" THEN add_mod_index + 1 ELSE add_mod_index)
    /\ mul_mod_index' = (IF it.side = "mul" THEN mul_mod_index + 1 ELSE mul_mod_index)
    /\ pc' = (IF it.err = "Ok" THEN "loop" ELSE "done")
    /\ result' = (IF it.err = "Ok" THEN NoResult
                  ELSE [err |-> it.err, add_mod_index |-> add_mod_index,
                        mul_mod_index |-> mul_mod_index])
    /\ deduced' = (IF it.err = "Ok" /\ it.mem # memory
                   THEN deduced \cup {<<it.side, index>>}
                   ELSE deduced)
    /\ last' = [side |-> it.call, index |-> index, before |-> memory,
                err |-> it.err, advanced |-> it.side # "none"]

\* the index of the triple the deciding fill_value call of an iteration was on
CallIndex(it) == IF it.call = "add" THEN add_mod_index ELSE mul_mod_index

LoopStepOf(it) == LoopStep(it, CallIndex(it))

\* one iteration of the deduction loop
FillMemoryLoop ==
    /\ pc = "loop"
    /\ add_mod_index < add_mod_n \/ mul_mod_index < mul_mod_n
    /\ LoopStepOf(LoopBody(mod_runner(add_mod, mul_mod), memory,
                           add_mod_inputs, add_mod_n, add_mod_index,
                           mul_mod_inputs, mul_mod_n, mul_mod_index))
    /\ UNCHANGED <<add_mod, mul_mod, add_mod_inputs, mul_mod_inputs, add_mod_n, mul_mod_n,
                   sec, codec, entry, air, scope, py>>

\* the loop condition fails: fill_memory returns Ok(())
FillMemoryReturn ==
    /\ pc = "loop"
    /\ ~(add_mod_index < add_mod_n \/ mul_mod_index < mul_mod_n)
    /\ pc' = "done"
    /\ result' = [NoResult EXCEPT !.err = "Ok"]
    /\ UNCHANGED <<memory, add_mod, mul_mod, add_mod_inputs, mul_mod_inputs, add_mod_n,
                   mul_mod_n, add_mod_index, mul_mod_index, deduced, last, sec, codec, entry, air, scope, py>>

\* the used sizes the VM may report for a builtin segment: no size, whole
\* instances, and the effective size of the segment in memory
EffectiveSize(mem, base) ==
    LET offs == {a[2] : a \in {x \in DOMAIN mem : x[1] = base}}
    IN  IF offs = {} THEN 0 ELSE 1 + CHOOSE o \in offs : \A q \in offs : q <= o

SegmentSizes(mem, base) ==
    {NoneValue, EffectiveSize(mem, base)} \cup {INPUT_CELLS * k : k \in 0..(MaxInst + 1)}

\* the runners of the run
Runners == {a.runner : a \in {x \in {add_mod, mul_mod} : x.some}}

\* run_additional_security_checks on one runner
RunSecurityChecks ==
    /\ \E self \in Runners : \E size \in SegmentSizes(memory, self.base) :
          sec' = [runner |-> self, size |-> size,
                  res |-> run_additional_security_checks(self, memory, size)]
    /\ pc' = "checked"
    /\ UNCHANGED <<memory, add_mod, mul_mod, add_mod_inputs, mul_mod_inputs, add_mod_n,
                   mul_mod_n, add_mod_index, mul_mod_index, result, deduced, last, codec, entry, air, scope, py>>

\* the security checks of the end of the run, once fill_memory returned Ok
SecurityChecks ==
    /\ pc = "done"
    /\ result.err = "Ok"
    /\ RunSecurityChecks

Next == FillMemoryCall \/ FillMemoryLoop \/ FillMemoryReturn \/ SecurityChecks

Spec == Init /\ [][Next]_vars

----------------------------------------------------------------------------
(* The limb codec alone: write_n_words_value and read_n_words_value on any   *)
(* four cells                                                                *)

CodecRunner == ModBuiltinRunner("Add", 0, WordBitLen, 1)

CodecAddrs == {ValuesPtr, AddrAdd(ValuesPtr, 1)}

\* what a cell of the values segment may hold: nothing, a pointer, a limb, or
\* the first integer that is no limb
CodecCells == {Absent, PtrCell(2, 0)} \cup {IntCell(w) : w \in 0..shift(CodecRunner)}

\* the memories over the first N_WORDS cells of the values segment
CodecMemories ==
    { CellsAt(ValuesPtr, [o \in {q \in 0..(N_WORDS - 1) : f[q] # Absent} |-> f[o]]) :
        f \in [0..(N_WORDS - 1) -> CodecCells] }

\* the values written: every value of N_WORDS limbs and the first two that
\* do not fit on an empty memory, the small values on the others
CodecInputs ==
    { <<EmptyMemory, v>> : v \in 0..(shift(CodecRunner) ^ N_WORDS + 1) }
    \cup (CodecMemories \X (0..MaxVal))

InitCodec ==
    \E in \in CodecInputs : \E addr \in CodecAddrs :
        /\ memory = in[1]
        /\ codec = [NoCodec EXCEPT !.phase = "start", !.addr = addr, !.v = in[2],
                                   !.before = in[1]]
        /\ pc = "codec"
        /\ add_mod = None
        /\ mul_mod = None
        /\ add_mod_inputs = DefaultInputs
        /\ mul_mod_inputs = DefaultInputs
        /\ add_mod_n = 0
        /\ mul_mod_n = 0
        /\ add_mod_index = 0
        /\ mul_mod_index = 0
        /\ result = NoResult
        /\ deduced = {}
        /\ last = NoCall
        /\ sec = NoCheck
        /\ entry = memory
        /\ air = NoAir
        /\ scope = NoScope
        /\ py = NoPy

\* the state after write_n_words_value returned w
CodecWritten(w) ==
    /\ memory' = w.mem
    /\ codec' = [codec EXCEPT !.phase = "written", !.wres = w.err]

\* write_n_words_value(memory, addr, v)
CodecWrite ==
    /\ pc = "codec"
    /\ codec.phase = "start"
    /\ CodecWritten(write_n_words_value(CodecRunner, memory, codec.addr, codec.v))
    /\ UNCHANGED <<add_mod, mul_mod, pc, add_mod_inputs, mul_mod_inputs, add_mod_n,
                   mul_mod_n, add_mod_index, mul_mod_index, result, deduced, last, sec, entry, air, scope, py>>

\* read_n_words_value(memory, addr), on the memory as prepared or as written
CodecRead ==
    /\ pc = "codec"
    /\ codec.phase \in {"start", "written"}
    /\ codec' = [codec EXCEPT !.phase = "read",
                              !.rres = read_n_words_value(CodecRunner, memory, codec.addr)]
    /\ UNCHANGED <<memory, add_mod, mul_mod, pc, add_mod_inputs, mul_mod_inputs, add_mod_n,
                   mul_mod_n, add_mod_index, mul_mod_index, result, deduced, last, sec, entry, air, scope, py>>

NextCodec == CodecWrite \/ CodecRead

SpecCodec == InitCodec /\ [][NextCodec]_vars

----------------------------------------------------------------------------
(* The security checks alone, on segments of two headers that guest code     *)
(* wrote itself                                                              *)

\* the offsets table of the checked segments: enough triples for every batch
SecTriples == 2 * (MaxBatch + 1) + 1

\* the fields of the second header: as fill_inputs would write them, or not
SecSecond(p, bs, n) ==
    [p : {p, 7 - p},
     values_ptr : {ValuesPtr, AddrAdd(ValuesPtr, N_WORDS)},
     offsets_ptr : {AddrAdd(AddOffsetsPtr, 3 * bs), AddOffsetsPtr},
     n : {saturating_sub(n, bs), bs, 0}]

\* a checked segment: the runner's type and batch_size, the first header's p
\* and n, the second header and the row of the values table
SecScenarios ==
    UNION { [type : {t}, bs : {b}, p : {m}, n : {b * k}, second : SecSecond(m, b, b * k),
             row : ValueRows] :
            t \in {"Add", "Mul"}, b \in 1..MaxBatch, m \in {3, 4}, k \in 1..(MaxInst + 1) }
    \cup
    { [type |-> t, bs |-> 1, p |-> 0, n |-> 1,
       second |-> [p |-> 0, values_ptr |-> ValuesPtr,
                   offsets_ptr |-> AddrAdd(AddOffsetsPtr, 3), n |-> 1],
       row |-> row] : t \in {"Add", "Mul"}, row \in ValueRows }

SecMemory(sc) ==
    CellsAt(AddPtr, HeaderCells(sc.p, WordBitLen, ValuesPtr, AddOffsetsPtr, sc.n))
    @@ CellsAt(AddrAdd(AddPtr, INPUT_CELLS),
               HeaderCells(sc.second.p, WordBitLen, sc.second.values_ptr,
                           sc.second.offsets_ptr, sc.second.n))
    @@ CellsAt(AddOffsetsPtr, OffsetCells("chain", SecTriples))
    @@ CellsAt(ValuesPtr, ValueCells(sc.row, WordBitLen))

InitSec ==
    \E sc \in SecScenarios :
        /\ memory = SecMemory(sc)
        /\ add_mod = Some(AddPtr, ModBuiltinRunner(sc.type, AddPtr[1], WordBitLen, sc.bs), 0)
        /\ mul_mod = None
        /\ pc = "idle"
        /\ add_mod_inputs = DefaultInputs
        /\ mul_mod_inputs = DefaultInputs
        /\ add_mod_n = 0
        /\ mul_mod_n = 0
        /\ add_mod_index = 0
        /\ mul_mod_index = 0
        /\ result = NoResult
        /\ deduced = {}
        /\ last = NoCall
        /\ sec = NoCheck
        /\ codec = NoCodec
        /\ entry = memory
        /\ air = NoAir
        /\ scope = NoScope
        /\ py = NoPy

\* the security checks on a segment fill_memory never ran on
SecurityChecksAlone ==
    /\ pc = "idle"
    /\ RunSecurityChecks

NextSec == SecurityChecksAlone

SpecSec == InitSec /\ [][NextSec]_vars

----------------------------------------------------------------------------
(* air_private_input alone, on a finalized segment of two instances of which *)
(* guest code left one cell as it pleased                                    *)

InitAir ==
    \E sc \in {x \in SecScenarios :
                  /\ x.type = "Add"
                  /\ x.p = 3
                  /\ x.n = 2 * x.bs
                  /\ x.second = [p |-> 3, values_ptr |-> ValuesPtr,
                                 offsets_ptr |-> AddrAdd(AddOffsetsPtr, 3 * x.bs),
                                 n |-> x.bs]} :
    \E addr \in {<<AddPtr[1], o>> : o \in 0..(2 * INPUT_CELLS - 1)}
                 \cup {AddrAdd(AddOffsetsPtr, o) : o \in 0..5}
                 \cup {AddrAdd(ValuesPtr, o) : o \in 0..(N_WORDS - 1)} :
    \E cell \in {Absent, PtrCell(ValuesPtr[1], UsizeMax), IntCell(UsizeMax + 1),
                  IntCell(UsizeMax), IntCell(UsizeMax - (N_WORDS - 1))} :
        /\ memory = [a \in (DOMAIN SecMemory(sc) \cup {addr}) \ (IF cell = Absent THEN {addr} ELSE {}) |->
                        IF a = addr THEN cell ELSE SecMemory(sc)[a]]
        /\ add_mod = Some(AddPtr, ModBuiltinRunner(sc.type, AddPtr[1], WordBitLen, sc.bs), 0)
        /\ mul_mod = None
        /\ pc = "idle"
        /\ add_mod_inputs = DefaultInputs
        /\ mul_mod_inputs = DefaultInputs
        /\ add_mod_n = 0
        /\ mul_mod_n = 0
        /\ add_mod_index = 0
        /\ mul_mod_index = 0
        /\ result = NoResult
        /\ deduced = {}
        /\ last = NoCall
        /\ sec = NoCheck
        /\ codec = NoCodec
        /\ entry = memory
        /\ air = NoAir
        /\ scope = NoScope
        /\ py = NoPy

\* air_private_input on the runner's segment, in either build
AirPrivateInput ==
    /\ pc = "idle"
    /\ \E size \in SegmentSizes(memory, add_mod.runner.base) : \E overflow_checks \in BOOLEAN :
          air' = [size |-> size, overflow_checks |-> overflow_checks,
                  res |-> air_private_input(add_mod.runner, memory, size, overflow_checks)]
    /\ pc' = "emitted"
    /\ UNCHANGED <<memory, add_mod, mul_mod, add_mod_inputs, mul_mod_inputs, add_mod_n,
                   mul_mod_n, add_mod_index, mul_mod_index, result, deduced, last, sec, codec,
                   entry, scope, py>>

SpecAir == InitAir /\ [][AirPrivateInput]_vars

----------------------------------------------------------------------------
(* The security checks, then air_private_input, on segments of two headers   *)
(* that fill_memory would leave, cut short at any cell or with one header   *)
(* cell overwritten and a limb or two of p or of an operand removed          *)

InitHdr ==
    \E bs \in 1..MaxBatch : \E k \in 1..2 :
    \E over \in
        { [a \in {<<AddPtr[1], o>> : o \in cut..(2 * INPUT_CELLS - 1)} |-> Absent] :
            cut \in 0..(2 * INPUT_CELLS) }
        \cup
        { (<<AddPtr[1], o>> :> cell) @@ limb :
            o \in 0..(2 * INPUT_CELLS - 1),
            cell \in {Absent, PtrCell(ValuesPtr[1], 0), IntCell(0), IntCell(1),
                      IntCell(2 ^ WordBitLen), IntCell(UsizeMax + 1)},
            limb \in {EmptyMemory, <<AddPtr[1], 1>> :> Absent,
                      <<AddPtr[1], INPUT_CELLS + 1>> :> Absent,
                      AddrAdd(ValuesPtr, 1) :> Absent,
                      AddrAdd(ValuesPtr, 2 * N_WORDS) :> Absent,
                      (AddrAdd(ValuesPtr, 1) :> Absent)
                          @@ (AddrAdd(ValuesPtr, 2 * N_WORDS - 1) :> Absent)} } :
        /\ LET whole == SecMemory([type |-> "Add", bs |-> bs, p |-> 3, n |-> bs * k,
                                   second |-> [p |-> 3, values_ptr |-> ValuesPtr,
                                               offsets_ptr |-> AddrAdd(AddOffsetsPtr, 3 * bs),
                                               n |-> bs * (k - 1)],
                                   row |-> <<1, 2, 0, 2>>])
           IN  memory =
                 [a \in (DOMAIN whole \cup DOMAIN over) \ {x \in DOMAIN over : over[x] = Absent} |->
                     IF a \in DOMAIN over THEN over[a] ELSE whole[a]]
        /\ add_mod = Some(AddPtr, ModBuiltinRunner("Add", AddPtr[1], WordBitLen, bs), 0)
        /\ mul_mod = None
        /\ pc = "idle"
        /\ add_mod_inputs = DefaultInputs
        /\ mul_mod_inputs = DefaultInputs
        /\ add_mod_n = 0
        /\ mul_mod_n = 0
        /\ add_mod_index = 0
        /\ mul_mod_index = 0
        /\ result = NoResult
        /\ deduced = {}
        /\ last = NoCall
        /\ sec = NoCheck
        /\ codec = NoCodec
        /\ entry = memory
        /\ air = NoAir
        /\ scope = NoScope
        /\ py = NoPy

\* air_private_input on the segment the security checks accepted, with the
\* used size they were given
AirAfterChecks ==
    /\ pc = "checked"
    /\ sec.res.err = "Ok"
    /\ \E overflow_checks \in BOOLEAN :
          air' = [size |-> sec.size, overflow_checks |-> overflow_checks,
                  res |-> air_private_input(sec.runner, memory, sec.size, overflow_checks)]
    /\ pc' = "emitted"
    /\ UNCHANGED <<memory, add_mod, mul_mod, add_mod_inputs, mul_mod_inputs, add_mod_n,
                   mul_mod_n, add_mod_index, mul_mod_index, result, deduced, last, sec, codec,
                   entry, scope, py>>

SpecHdr == InitHdr /\ [][SecurityChecksAlone \/ AirAfterChecks]_vars

----------------------------------------------------------------------------
(* The hint ec_negate alone, on a point whose y limbs are any three felts,   *)
(* the last one possibly a pointer or absent                                 *)

InitEc ==
    \E d0 \in 0..(PRIME - 1) : \E d1 \in 0..(PRIME - 1) :
    \E c2 \in {IntCell(d) : d \in 0..(PRIME - 1)} \cup {Absent, PtrCell(ValuesPtr[1], 0)} :
        /\ memory = [a \in {AddrAdd(ValuesPtr, 3), AddrAdd(ValuesPtr, 4)}
                            \cup (IF c2 = Absent THEN {} ELSE {AddrAdd(ValuesPtr, 5)}) |->
                        IF a = AddrAdd(ValuesPtr, 3) THEN IntCell(d0)
                        ELSE IF a = AddrAdd(ValuesPtr, 4) THEN IntCell(d1)
                        ELSE c2]
        /\ add_mod = None
        /\ mul_mod = None
        /\ pc = "hint"
        /\ add_mod_inputs = DefaultInputs
        /\ mul_mod_inputs = DefaultInputs
        /\ add_mod_n = 0
        /\ mul_mod_n = 0
        /\ add_mod_index = 0
        /\ mul_mod_index = 0
        /\ result = NoResult
        /\ deduced = {}
        /\ last = NoCall
        /\ sec = NoCheck
        /\ codec = NoCodec
        /\ entry = memory
        /\ air = NoAir
        /\ scope = NoScope
        /\ py = NoPy

\* the hint runs on ids.point = ValuesPtr
EcNegate ==
    /\ pc = "hint"
    /\ scope' = ec_negate(memory, ValuesPtr)
    /\ pc' = "hinted"
    /\ UNCHANGED <<memory, add_mod, mul_mod, add_mod_inputs, mul_mod_inputs, add_mod_n,
                   mul_mod_n, add_mod_index, mul_mod_index, result, deduced, last, sec, codec,
                   entry, air, py>>

SpecEc == InitEc /\ [][EcNegate]_vars

----------------------------------------------------------------------------
(* The Python hint executor: execute_hint, its Python thread and its VM thread *)

\* enum Operation without End, as the methods of PyMemory, PySegmentManager
\* and PyIds build them: the requests hint code can make. <<1, 0>> holds 5,
\* <<1, 1>> is absent; ids.a is at <<1, 0>>, ids.b at <<1, 1>>, ids.z is no
\* name of ids_data.
HintOps ==
    LET Op(k, a, nm, arg) == [kind |-> k, addr |-> a, name |-> nm, arg |-> arg]
    IN  {Op("ReadMemory", a, "", <<>>) : a \in {<<1, 0>>, <<1, 1>>}}
        \cup {Op("WriteMemory", a, "", <<IntCell(v)>>) : a \in {<<1, 0>>, <<1, 1>>}, v \in {5, 6}}
        \cup {Op("AddSegment", <<0, 0>>, "", <<>>)}
        \cup {Op("ReadIds", <<0, 0>>, nm, <<>>) : nm \in {"a", "b", "z"}}
        \cup {Op("WriteIds", <<0, 0>>, nm, <<IntCell(6)>>) : nm \in {"a", "b", "z"}}
        \cup {Op("WriteVecArg", a, "", <<IntCell(5), IntCell(7)>>) : a \in {<<1, 0>>, <<1, 1>>}}

\* one arm of handle_messages's match on an operation other than End: the
\* memory after it, the results it sends (none or one) and the error its `?`
\* returns. The reference of an ids name resolves to a fixed address; reading
\* a name whose cell is absent fails.
HandleOperationNoInsert(op, mem, num_segments) ==
    [err |-> "Ok", mem |-> mem, num_segments |-> num_segments,
     reply |-> IF op.kind = "AddSegment" THEN <<[kind |-> "Segment", value |-> PtrCell(num_segments, 0)]>>
               ELSE IF op.kind \in {"ReadMemory", "ReadIds"}
                    THEN <<[kind |-> "ReadValue", value |-> Absent]>>
                    ELSE <<[kind |-> "Success", value |-> Absent]>>]

HandleOperation(op, mem, num_segments) ==
    LET ids_data == ("a" :> <<1, 0>>) @@ ("b" :> <<1, 1>>)
        Failed(e, m) == [err |-> e, mem |-> m, num_segments |-> num_segments, reply |-> <<>>]
        Sent(kind, value, m, n) ==
            [err |-> "Ok", mem |-> m, num_segments |-> n,
             reply |-> <<[kind |-> kind, value |-> value]>>]
        Inserted(r) == IF r.err # "Ok" THEN Failed(r.err, r.mem)
                       ELSE Sent("Success", Absent, r.mem, num_segments)
    IN  CASE op.kind = "ReadMemory" ->
                IF IsAbsent(Get(mem, op.addr))
                THEN [err |-> "Ok", mem |-> mem, num_segments |-> num_segments, reply |-> <<>>]
                ELSE Sent("ReadValue", Get(mem, op.addr), mem, num_segments)
          [] op.kind = "WriteMemory" ->
                Inserted(insert_as_accessed(mem, op.addr, op.arg[1]))
          [] op.kind = "AddSegment" ->
                Sent("Segment", PtrCell(num_segments, 0), mem, num_segments + 1)
          [] op.kind = "ReadIds" ->
                IF op.name \notin DOMAIN ids_data THEN Failed("FailedToGetIds", mem)
                ELSE IF IsAbsent(Get(mem, ids_data[op.name])) THEN Failed("FailedToGetIds", mem)
                ELSE Sent("ReadValue", Get(mem, ids_data[op.name]), mem, num_segments)
          [] op.kind = "WriteIds" ->
                IF op.name \notin DOMAIN ids_data THEN Failed("FailedToGetIds", mem)
                ELSE Inserted(insert_as_accessed(mem, ids_data[op.name], op.arg[1]))
          [] op.kind = "WriteVecArg" ->
                Inserted(InsertAll(mem, [i \in 1..Len(op.arg) |->
                                            <<AddrAdd(op.addr, i - 1), op.arg[i]>>]))

\* execute_hint has created the two channels and spawned the Python thread
\* on the hint's code; handle_messages is about to receive
InitPy ==
    \E n \in 0..MaxOps : \E code \in [1..n -> HintOps] :
        /\ memory = (<<1, 0>> :> IntCell(5))
        /\ py = [python |-> "run", vm |-> "loop", hint |-> "running", code |-> code,
                 operations |-> <<>>, results |-> <<>>, sent |-> <<>>, received |-> 0,
                 num_segments |-> 2]
        /\ add_mod = None
        /\ mul_mod = None
        /\ pc = "python"
        /\ add_mod_inputs = DefaultInputs
        /\ mul_mod_inputs = DefaultInputs
        /\ add_mod_n = 0
        /\ mul_mod_n = 0
        /\ add_mod_index = 0
        /\ mul_mod_index = 0
        /\ result = NoResult
        /\ deduced = {}
        /\ last = NoCall
        /\ sec = NoCheck
        /\ codec = NoCodec
        /\ entry = memory
        /\ air = NoAir
        /\ scope = NoScope

\* the Python thread runs the hint code up to its next request and sends it
\* with send_operation, or reaches the end of py.run and sends End. A send
\* fails once handle_messages has dropped the receiver: the PyTypeError ends
\* py.run and its unwrap panics.
PySend ==
    /\ py.hint = "running"
    /\ py.python = "run"
    /\ LET op == IF py.code = <<>>
                 THEN [kind |-> "End", addr |-> <<0, 0>>, name |-> "", arg |-> <<>>]
                 ELSE Head(py.code)
       IN  py' = IF py.vm # "loop"
                 THEN [py EXCEPT !.python = "panicked"]
                 ELSE [py EXCEPT !.python = IF op.kind = "End" THEN "ended" ELSE "wait",
                                 !.operations = Append(@, op),
                                 !.sent = Append(@, op)]
    /\ UNCHANGED <<memory, add_mod, mul_mod, pc, add_mod_inputs, mul_mod_inputs, add_mod_n,
                   mul_mod_n, add_mod_index, mul_mod_index, result, deduced, last, sec, codec,
                   entry, air, scope>>

\* the Python thread, blocked in recv() on the result channel after a
\* request, receives: check_operation_success wants Success,
\* get_read_value_result wants ReadValue, PySegmentManager::add wants
\* Segment. Another kind, or a channel whose sender is gone, raises a
\* PyTypeError, which ends py.run, whose unwrap panics.
PyRecv ==
    /\ py.hint = "running"
    /\ py.python = "wait"
    /\ py.results # <<>> \/ py.vm # "loop"
    /\ LET request == py.sent[Len(py.sent)]
           wanted == IF request.kind = "AddSegment" THEN "Segment"
                     ELSE IF request.kind \in {"ReadMemory", "ReadIds"} THEN "ReadValue"
                     ELSE "Success"
       IN  py' = IF py.results # <<>> /\ Head(py.results).kind = wanted
                 THEN [py EXCEPT !.python = "run", !.code = Tail(@),
                                 !.results = Tail(@), !.received = @ + 1]
                 ELSE [py EXCEPT !.python = "panicked",
                                 !.results = IF @ = <<>> THEN @ ELSE Tail(@)]
    /\ UNCHANGED <<memory, add_mod, mul_mod, pc, add_mod_inputs, mul_mod_inputs, add_mod_n,
                   mul_mod_n, add_mod_index, mul_mod_index, result, deduced, last, sec, codec,
                   entry, air, scope>>

\* one turn of handle_messages's loop: recv() on the operation channel, then
\* the arm of the operation. End leaves the loop with Ok; an arm's error, a
\* result that cannot be sent and a channel whose senders are gone return
\* Err, on which execute_hint's unwrap panics.
VmHandle ==
    /\ py.hint = "running"
    /\ py.vm = "loop"
    /\ py.operations # <<>> \/ py.python = "panicked"
    /\ IF py.operations = <<>>
       THEN /\ py' = [py EXCEPT !.vm = "panicked"]
            /\ memory' = memory
       ELSE LET op == Head(py.operations)
                h == HandleOperation(op, memory, py.num_segments)
            IN  IF op.kind = "End"
                THEN /\ py' = [py EXCEPT !.vm = "returned", !.operations = Tail(@)]
                     /\ memory' = memory
                ELSE /\ memory' = h.mem
                     /\ py' = IF h.err # "Ok" \/ (h.reply # <<>> /\ py.python = "panicked")
                              THEN [py EXCEPT !.vm = "panicked", !.operations = Tail(@),
                                              !.num_segments = h.num_segments]
                              ELSE [py EXCEPT !.operations = Tail(@),
                                              !.results = @ \o h.reply,
                                              !.num_segments = h.num_segments]
    /\ UNCHANGED <<add_mod, mul_mod, pc, add_mod_inputs, mul_mod_inputs, add_mod_n,
                   mul_mod_n, add_mod_index, mul_mod_index, result, deduced, last, sec, codec,
                   entry, air, scope>>

\* execute_hint after handle_messages: its unwrap, then join() on the Python
\* thread, which waits for that thread to finish, the two unwraps of what it
\* returned, and update_scope
ExecuteHintReturn ==
    /\ py.hint = "running"
    /\ py.vm = "panicked" \/ (py.vm = "returned" /\ py.python \in {"ended", "panicked"})
    /\ py' = [py EXCEPT !.hint = IF py.vm = "returned" /\ py.python = "ended"
                                 THEN "returned" ELSE "panicked"]
    /\ UNCHANGED <<memory, add_mod, mul_mod, pc, add_mod_inputs, mul_mod_inputs, add_mod_n,
                   mul_mod_n, add_mod_index, mul_mod_index, result, deduced, last, sec, codec,
                   entry, air, scope>>

SpecPy == InitPy /\ [][PySend \/ PyRecv \/ VmHandle \/ ExecuteHintReturn]_vars

----------------------------------------------------------------------------
(* What the properties read in a memory, without the runner's functions *)

\* a cell that holds a limb of `bits` bits
IsLimb(cell, bits) == IsInt(cell) /\ cell[3] < 2 ^ bits

RECURSIVE LimbSum(_, _, _, _)
LimbSum(mem, addr, bits, i) ==
    IF i = N_WORDS THEN 0
    ELSE Get(mem, AddrAdd(addr, i))[3] * 2 ^ (bits * i) + LimbSum(mem, addr, bits, i + 1)

\* the number the N_WORDS cells at addr stand for, NoneValue unless each is a limb
StoredValue(mem, addr, bits) ==
    IF \A i \in 0..(N_WORDS - 1) : IsLimb(Get(mem, AddrAdd(addr, i)), bits)
    THEN LimbSum(mem, addr, bits, 0)
    ELSE NoneValue

\* operand k (0 for a, 1 for b, 2 for c) of triple j of the table of inputs
Operand(mem, inputs, j, k, bits) ==
    LET offset == Get(mem, AddrAdd(inputs.offsets_ptr, 3 * j + k))
    IN  IF IsInt(offset)
        THEN StoredValue(mem, AddrAdd(inputs.values_ptr, offset[3]), bits)
        ELSE NoneValue

Operands(mem, inputs, j, bits) == [k \in 0..2 |-> Operand(mem, inputs, j, k, bits)]

Missing(ops) == {k \in 0..2 : ops[k] = NoneValue}

\* a op b = c modulo p
Related(type, ops, p) ==
    (IF type = "Add" THEN ops[0] + ops[1] ELSE ops[0] * ops[1]) % p = ops[2] % p

\* the triple has its three operands and they are related modulo p > 0
TripleHolds(mem, inputs, j, bits, type) ==
    /\ Missing(Operands(mem, inputs, j, bits)) = {}
    /\ inputs.p > 0
    /\ Related(type, Operands(mem, inputs, j, bits), inputs.p)

\* the triple has its three operands and they are not related modulo p > 0
TripleFails(mem, inputs, j, bits, type) ==
    /\ Missing(Operands(mem, inputs, j, bits)) = {}
    /\ inputs.p > 0
    /\ ~Related(type, Operands(mem, inputs, j, bits), inputs.p)

\* the values in [0, p) that, put for the missing operands, relate the triple
Consistent(type, ops, p) ==
    {v \in 0..(p - 1) :
        Related(type, [k \in 0..2 |-> IF ops[k] = NoneValue THEN v ELSE ops[k]], p)}

Sides == {"add", "mul"}
SideArgOf(s) == IF s = "add" THEN add_mod ELSE mul_mod
SideInputs(s) == IF s = "add" THEN add_mod_inputs ELSE mul_mod_inputs
SideType(s) == IF s = "add" THEN "Add" ELSE "Mul"
SideBits(s) == SideArgOf(s).runner.word_bit_len

\* the seven cells of header i of a segment, and the modulus they stand for
HeaderAt(mem, base, i, bits) ==
    [p |-> StoredValue(mem, <<base, INPUT_CELLS * i>>, bits),
     p_cells |-> [k \in 0..(N_WORDS - 1) |-> Get(mem, <<base, INPUT_CELLS * i + k>>)],
     values_ptr |-> Get(mem, <<base, INPUT_CELLS * i + VALUES_PTR_OFFSET>>),
     offsets_ptr |-> Get(mem, <<base, INPUT_CELLS * i + OFFSETS_PTR_OFFSET>>),
     n |-> Get(mem, <<base, INPUT_CELLS * i + N_OFFSET>>)]

\* a header with a modulus, two pointers and n >= 1
HeaderOk(h) ==
    /\ h.p # NoneValue
    /\ IsPtr(h.values_ptr)
    /\ IsPtr(h.offsets_ptr)
    /\ IsInt(h.n)
    /\ h.n[3] >= 1

HeaderInputs(h) ==
    [p |-> h.p, values_ptr |-> <<h.values_ptr[2], h.values_ptr[3]>>,
     offsets_ptr |-> <<h.offsets_ptr[2], h.offsets_ptr[3]>>, n |-> h.n[3]]

\* the checked call: its instances and what its memory holds for them
Checked == pc = "checked" /\ sec.size # NoneValue
SecBatch == 0..(sec.runner.batch_size - 1)
SecInstances == 0..(((sec.size + INPUT_CELLS - 1) \div INPUT_CELLS) - 1)
SecHeader(i) == HeaderAt(memory, sec.runner.base, i, sec.runner.word_bit_len)

SecTripleHolds(i, j) ==
    /\ HeaderOk(SecHeader(i))
    /\ TripleHolds(memory, HeaderInputs(SecHeader(i)), j, sec.runner.word_bit_len,
                   sec.runner.builtin_type)

SecTripleFails(i, j) ==
    /\ HeaderOk(SecHeader(i))
    /\ TripleFails(memory, HeaderInputs(SecHeader(i)), j, sec.runner.word_bit_len,
                   sec.runner.builtin_type)

\* instance i is checked against its predecessor
Chained(i) ==
    /\ i > 0
    /\ HeaderOk(SecHeader(i - 1))
    /\ SecHeader(i - 1).n[3] > sec.runner.batch_size

CrossFields == <<"p_values", "values_ptr", "offsets_ptr", "n">>

\* field f of header i is not what its predecessor asks for
Mismatch(i, f) ==
    CASE f = "p_values" -> SecHeader(i).p_cells # SecHeader(i - 1).p_cells
      [] f = "values_ptr" -> SecHeader(i).values_ptr # SecHeader(i - 1).values_ptr
      [] f = "offsets_ptr" ->
            SecHeader(i).offsets_ptr #
                PtrCell(SecHeader(i - 1).offsets_ptr[2],
                        SecHeader(i - 1).offsets_ptr[3] + 3 * sec.runner.batch_size)
      [] f = "n" ->
            SecHeader(i).n #
                IntCell(Max(SecHeader(i - 1).n[3] - sec.runner.batch_size, 0))

Mismatches(i) == {k \in 1..4 : Mismatch(i, CrossFields[k])}

\* the first field of header i, in the order of CrossFields, that mismatches
FirstMismatch(i) ==
    CrossFields[CHOOSE k \in Mismatches(i) : \A q \in Mismatches(i) : k <= q]

\* every check of the instances before i passes
Reached(i) ==
    \A k \in 0..(i - 1) :
        /\ HeaderOk(SecHeader(k))
        /\ Chained(k) => Mismatches(k) = {}
        /\ \A j \in SecBatch : SecTripleHolds(k, j)

\* the result is a failure at or before triple j of instance i
FailsBy(i, j) ==
    /\ sec.res.err # "Ok"
    /\ \/ sec.res.instance < i
       \/ sec.res.instance = i /\ sec.res.batch <= j

----------------------------------------------------------------------------
(* fill_memory: C1, C3, C4, C5, C6 *)

\* C1, as stated (for a builtin passed at least one operation): after
\* fill_memory returns Ok, every triple of every batch of every instance of
\* each present builtin (the n triples of its header) has its three operands
\* in memory and a op b = c (mod p).
C1_EveryTripleHolds ==
    result.err = "Ok" =>
        \A s \in Sides : (SideArgOf(s).some /\ SideArgOf(s).index >= 1) =>
            \A j \in 0..(SideInputs(s).n - 1) :
                TripleHolds(memory, SideInputs(s), j, SideBits(s), SideType(s))

\* C1, amended: after fill_memory returns Ok for a builtin passed at least one
\* operation, every one of the n triples of its header has its three operands
\* in memory, and each triple that fill_value deduced an operand of satisfies
\* a op b = c (mod p).
C1_DeducedTriplesHold ==
    result.err = "Ok" =>
        \A s \in Sides : (SideArgOf(s).some /\ SideArgOf(s).index >= 1) =>
            /\ \A j \in 0..(SideInputs(s).n - 1) :
                  Missing(Operands(memory, SideInputs(s), j, SideBits(s))) = {}
            /\ \A j \in 0..(SideArgOf(s).index - 1) :
                  <<s, j>> \in deduced =>
                      TripleHolds(memory, SideInputs(s), j, SideBits(s), SideType(s))

\* C1: both builtins ran, each deduced an operand, and fill_memory returned Ok
C1_Witness ==
    /\ result.err = "Ok"
    /\ <<"add", 0>> \in deduced
    /\ <<"mul", 0>> \in deduced
    /\ add_mod.index >= 2

\* C3, for Add with inverse Sub: whenever fill_value is called on an add triple
\* with exactly one operand missing and the two others consistent with some v
\* in [0, p), that call returns true and the missing operand then holds such
\* a v.
C3_AddDeducesOnFirstCall ==
    (/\ last.side = "add"
     /\ add_mod_inputs.p > 0
     /\ Cardinality(Missing(Operands(last.before, add_mod_inputs, last.index,
                                     SideBits("add")))) = 1
     /\ Consistent("Add", Operands(last.before, add_mod_inputs, last.index, SideBits("add")),
                   add_mod_inputs.p) # {})
    => /\ last.err = "Ok"
       /\ last.advanced
       /\ TripleHolds(memory, add_mod_inputs, last.index, SideBits("add"), "Add")

\* the headers of a present builtin after fill_memory: header k of the n / batch_size
\* ones is the first with offsets_ptr advanced by 3*k*batch_size and n less k*batch_size
ReplicatedHeaders(self, ptr, first) ==
    /\ first.err = "Ok"
    /\ \A k \in 1..((first.inputs.n \div self.batch_size) - 1) :
          read_inputs(self, memory, AddrAdd(ptr, INPUT_CELLS * k)) =
              [err |-> "Ok",
               inputs |-> [first.inputs EXCEPT
                              !.offsets_ptr = AddrAdd(@, 3 * k * self.batch_size),
                              !.n = @ - k * self.batch_size],
               at |-> AddrAdd(ptr, INPUT_CELLS * k)]

\* C4: after fill_memory returns Ok, for every k from 1 up to (not including)
\* n / batch_size, read_inputs at builtin_ptr + 7k succeeds with the p limbs
\* and the values_ptr of the first header, offsets_ptr + 3*k*batch_size and
\* n - k*batch_size.
C4_ReplicatedHeaders ==
    result.err = "Ok" =>
        \A s \in Sides : SideArgOf(s).some =>
            ReplicatedHeaders(SideArgOf(s).runner, SideArgOf(s).ptr,
                              read_inputs(SideArgOf(s).runner, memory, SideArgOf(s).ptr))

\* C4: fill_memory returned Ok for a builtin of two instances
C4_Witness ==
    /\ result.err = "Ok"
    /\ add_mod.some
    /\ add_mod.runner.batch_size = 1
    /\ add_mod_inputs.n = 2
    /\ read_inputs(add_mod.runner, memory, AddrAdd(add_mod.ptr, INPUT_CELLS)).inputs.n = 1

\* side s was filled from index 0 to n, each triple deduced at its turn, and
\* the security checks ran on its 7 * (n / batch_size) cells
FilledAndChecked(s) ==
    /\ pc = "checked"
    /\ result.err = "Ok"
    /\ SideArgOf(s).some
    /\ sec.runner = SideArgOf(s).runner
    /\ SideArgOf(s).index = SideInputs(s).n
    /\ sec.size = INPUT_CELLS * (SideInputs(s).n \div sec.runner.batch_size)
    /\ \A j \in 0..(SideInputs(s).n - 1) : <<s, j>> \in deduced

\* C5: when fill_memory, called with index = n on triples that each miss exactly
\* one operand at their turn, returns Ok, run_additional_security_checks on the
\* builtin's 7 * (n / batch_size) cells returns Ok.
C5_FilledThenChecked ==
    \A s \in Sides : FilledAndChecked(s) => sec.res.err = "Ok"

\* C5: two mul instances were filled and checked
C5_Witness ==
    /\ FilledAndChecked("mul")
    /\ mul_mod_inputs.n >= 2
    /\ sec.res.err = "Ok"

CursorsWithinTargets ==
    /\ add_mod_index \in 0..add_mod_n
    /\ mul_mod_index \in 0..mul_mod_n
    /\ pc = "call" => add_mod_index = 0 /\ mul_mod_index = 0

\* an iteration advances one cursor by one, or ends the call with a failure
IterationStep ==
    (pc = "loop" /\ (add_mod_index < add_mod_n \/ mul_mod_index < mul_mod_n)) =>
        \/ /\ pc' = "loop"
           /\ add_mod_index' = add_mod_index + 1
           /\ mul_mod_index' = mul_mod_index
        \/ /\ pc' = "loop"
           /\ add_mod_index' = add_mod_index
           /\ mul_mod_index' = mul_mod_index + 1
        \/ /\ pc' = "done"
           /\ result'.err \notin {"Ok", "none"}
           /\ add_mod_index' = add_mod_index
           /\ mul_mod_index' = mul_mod_index

\* C6: the deduction loop terminates: every iteration advances exactly one
\* cursor by one or ends the call with a failure, the cursors start at 0 and
\* never exceed their targets add_mod_n and mul_mod_n, so the loop makes at
\* most add_mod_n + mul_mod_n advances.
C6_LoopTerminates ==
    /\ []CursorsWithinTargets
    /\ [][IterationStep]_vars

\* C6: a loop that made both cursors advance, to four advances in all
C6_Witness ==
    /\ pc = "done"
    /\ result.err = "Ok"
    /\ add_mod_index = 2
    /\ mul_mod_index = 2

----------------------------------------------------------------------------
(* The limb codec: C7, C8, C9 *)

CodecShift == 2 ^ WordBitLen

\* the cells the codec call is on were all absent before it
OnAbsentCells ==
    \A i \in 0..(N_WORDS - 1) : AddrAdd(codec.addr, i) \notin DOMAIN codec.before

\* C7: for v < shift^N_WORDS and N_WORDS absent cells, write_n_words_value
\* followed by read_n_words_value returns Some(v) with the limbs
\* (v div shift^i) mod shift, each below shift.
C7_RoundTrip ==
    (/\ codec.phase = "read"
     /\ codec.wres # "none"
     /\ OnAbsentCells
     /\ codec.v < CodecShift ^ N_WORDS)
    => /\ codec.wres = "Ok"
       /\ codec.rres.err = "Ok"
       /\ codec.rres.value = codec.v
       /\ \A i \in 0..(N_WORDS - 1) :
             /\ codec.rres.words[i + 1] = (codec.v \div (CodecShift ^ i)) % CodecShift
             /\ codec.rres.words[i + 1] < CodecShift

\* C7: the largest value of N_WORDS limbs went round
C7_Witness ==
    /\ codec.phase = "read"
    /\ codec.wres = "Ok"
    /\ OnAbsentCells
    /\ codec.v = CodecShift ^ N_WORDS - 1
    /\ codec.rres.value = codec.v

\* the read failed on the cell at addr + i
ReadFailsAt(i) ==
    /\ codec.rres.err = "WordExceedsModBuiltinWordBitLen"
    /\ codec.rres.at = AddrAdd(codec.addr, i)
    /\ codec.rres.bits = WordBitLen
    /\ codec.rres.word = Get(memory, AddrAdd(codec.addr, i))[3]

\* the cell at addr + i holds an integer that is no limb
TooLargeAt(i) ==
    /\ IsInt(Get(memory, AddrAdd(codec.addr, i)))
    /\ Get(memory, AddrAdd(codec.addr, i))[3] >= CodecShift

C9_WriteFitsOrFails ==
    (codec.wres # "none" /\ OnAbsentCells) =>
        /\ codec.wres = "WriteNWordsValueNotZero" <=> codec.v >= CodecShift ^ N_WORDS
        /\ codec.v < CodecShift ^ N_WORDS => codec.wres = "Ok"

\* C9: the first value that does not fit was refused
C9_Witness ==
    /\ codec.wres = "WriteNWordsValueNotZero"
    /\ OnAbsentCells
    /\ codec.v = CodecShift ^ N_WORDS

----------------------------------------------------------------------------
(* run_additional_security_checks: C2, C10 *)

TripleField == "a op b == c (mod p)"

\* the call failed with ModBuiltinSecurityCheck on triple j of instance i
ReportsTriple(i, j) ==
    /\ sec.res.err = "ModBuiltinSecurityCheck"
    /\ sec.res.field = TripleField
    /\ sec.res.instance = i
    /\ sec.res.batch = j

\* no check made before triple j of instance i fails
NothingFailsBefore(i, j) ==
    /\ Reached(i)
    /\ Chained(i) => Mismatches(i) = {}
    /\ \A k \in 0..(j - 1) : SecTripleHolds(i, k)

\* C2: run_additional_security_checks returns Ok only if every triple of every
\* instance in 0..ceil(size/7) and every index in 0..batch_size satisfies
\* (a op b) mod p = c mod p for the runner's op; a triple that violates it
\* makes the call fail at that triple or before, and when no earlier check
\* failed the failure is ModBuiltinSecurityCheck with that instance and index.
C2_TriplesChecked ==
    Checked =>
        /\ sec.res.err = "Ok" =>
              \A i \in SecInstances : \A j \in SecBatch : SecTripleHolds(i, j)
        /\ \A i \in SecInstances : \A j \in SecBatch :
              SecTripleFails(i, j) => FailsBy(i, j)
        /\ \A i \in SecInstances : \A j \in SecBatch :
              (SecTripleFails(i, j) /\ NothingFailsBefore(i, j)) => ReportsTriple(i, j)
        /\ (sec.res.err = "ModBuiltinSecurityCheck" /\ sec.res.field = TripleField) =>
              SecTripleFails(sec.res.instance, sec.res.batch)

\* C2: the check failed on a triple of the second instance
C2_Witness ==
    /\ Checked
    /\ sec.res.err = "ModBuiltinSecurityCheck"
    /\ sec.res.field = TripleField
    /\ sec.res.instance = 1
    /\ SecTripleFails(1, 0)

\* the call returned Ok only with the four conditions on every chained instance
OkOnlyIfChained ==
    sec.res.err = "Ok" => \A i \in SecInstances : Chained(i) => Mismatches(i) = {}

\* the call failed on instance i with ModBuiltinSecurityCheck naming the first
\* of its fields, in the order p, values_ptr, offsets_ptr, n, that mismatches
NamesFirstMismatch(i) ==
    /\ sec.res.err = "ModBuiltinSecurityCheck"
    /\ sec.res.instance = i
    /\ sec.res.field = FirstMismatch(i)

\* C10, as stated: Ok only if every instance i > 0 with prev.n > batch_size
\* meets the four cross-instance conditions, and any mismatch (here: at an
\* instance that no earlier failure keeps the call from) makes the call fail
\* with ModBuiltinSecurityCheck naming the failing field, in the order p,
\* values_ptr, offsets_ptr, n.
C10_AnyMismatchNamed ==
    Checked =>
        /\ OkOnlyIfChained
        /\ \A i \in SecInstances :
              (Chained(i) /\ Reached(i) /\ Mismatches(i) # {}) => NamesFirstMismatch(i)

\* C10, amended: Ok only if every instance i > 0 with prev.n > batch_size meets
\* the four cross-instance conditions; a mismatch at an instance that no
\* earlier failure keeps the call from and whose own header read_inputs
\* accepts makes the call fail with ModBuiltinSecurityCheck naming the first
\* mismatching field in the order p, values_ptr, offsets_ptr, n.
C10_MismatchOfReadHeaderNamed ==
    Checked =>
        /\ OkOnlyIfChained
        /\ \A i \in SecInstances :
              (Chained(i) /\ Reached(i) /\ HeaderOk(SecHeader(i)) /\ Mismatches(i) # {})
              => NamesFirstMismatch(i)
        /\ \A k \in 1..4 :
              (sec.res.err = "ModBuiltinSecurityCheck" /\ sec.res.field = CrossFields[k])
              => /\ Chained(sec.res.instance)
                 /\ FirstMismatch(sec.res.instance) = CrossFields[k]

\* C10: the second header's n alone mismatched and the call named it
C10_Witness ==
    /\ Checked
    /\ Chained(1)
    /\ Reached(1)
    /\ Mismatches(1) = {4}
    /\ NamesFirstMismatch(1)

----------------------------------------------------------------------------
(* run_additional_security_checks: C11 *)

LastField == "prev_inputs.n != batch_size"

\* the instances of the checked call, counted
SecCount == (sec.size + INPUT_CELLS - 1) \div INPUT_CELLS

\* the last header of the checked segment holds n = batch_size
LastIsBatch ==
    /\ HeaderOk(SecHeader(SecCount - 1))
    /\ SecHeader(SecCount - 1).n[3] = sec.runner.batch_size

\* C11: on a segment of at least one instance run_additional_security_checks
\* returns Ok only if the last instance's n equals batch_size; when every
\* per-instance check passed and it does not, the call fails with
\* ModBuiltinSecurityCheck (prev_inputs.n != batch_size); on a segment of used
\* size 0 it returns Ok whatever the memory holds.
C11_LastInstanceIsBatch ==
    Checked =>
        /\ (SecCount > 0 /\ sec.res.err = "Ok") => LastIsBatch
        /\ (SecCount > 0 /\ Reached(SecCount) /\ ~LastIsBatch)
              => /\ sec.res.err = "ModBuiltinSecurityCheck"
                 /\ sec.res.field = LastField
        /\ sec.res.field = LastField => (SecCount > 0 /\ Reached(SecCount) /\ ~LastIsBatch)
        /\ sec.size = 0 => sec.res.err = "Ok"

\* C11: two chained instances passed their checks and the last one's n is not
\* batch_size
C11_Witness ==
    /\ Checked
    /\ SecCount = 2
    /\ Chained(1)
    /\ Reached(2)
    /\ sec.res.err = "ModBuiltinSecurityCheck"
    /\ sec.res.field = LastField

----------------------------------------------------------------------------
(* fill_memory, its entry: C12 *)

\* the cell at position o of the offsets table of side s, in memory mem
OffsetCell(mem, s, o) == Get(mem, AddrAdd(SideInputs(s).offsets_ptr, o))

\* side s was passed fewer operations than its first header's n
Padded(s) ==
    /\ result.err = "Ok"
    /\ SideArgOf(s).some
    /\ SideInputs(s).n > SideArgOf(s).index

\* C12: after fill_memory returns Ok for a builtin called with index < n, every
\* cell offsets_ptr + 3*j + k for j in index..n-1 and k in 0..2 holds the value
\* of the cell offsets_ptr + k, and the cells of the offsets table below
\* 3*index hold what they held before the call.
C12_OffsetsPadded ==
    \A s \in Sides : Padded(s) =>
        /\ \A j \in SideArgOf(s).index..(SideInputs(s).n - 1) : \A k \in 0..2 :
              /\ ~IsAbsent(OffsetCell(memory, s, 3 * j + k))
              /\ OffsetCell(memory, s, 3 * j + k) = OffsetCell(memory, s, k)
        /\ \A o \in 0..(3 * SideArgOf(s).index - 1) :
              OffsetCell(memory, s, o) = OffsetCell(entry, s, o)

\* C12: a table of two triples was padded to four, and its second triple is
\* not a copy of the first
C12_Witness ==
    /\ Padded("add")
    /\ add_mod.index = 2
    /\ add_mod_inputs.n = 4
    /\ OffsetCell(memory, "add", 3) # OffsetCell(memory, "add", 0)
    /\ IsAbsent(OffsetCell(entry, "add", 9))
    /\ OffsetCell(memory, "add", 9) = OffsetCell(memory, "add", 0)

----------------------------------------------------------------------------
(* fill_memory, its arguments: C13 *)

\* fill_memory has got past its entry or returned
Entered == pc \in {"loop", "done", "checked"}

NoBuiltinSet == ~add_mod.some /\ ~mul_mod.some

MismatchedInstanceDef ==
    /\ add_mod.some
    /\ mul_mod.some
    /\ add_mod.runner.word_bit_len # mul_mod.runner.word_bit_len

\* C13: fill_memory called with neither builtin fails with
\* FillMemoryNoBuiltinSet, called with two builtins of different word_bit_len
\* it fails with ModBuiltinsMismatchedInstanceDef, and in both cases the memory
\* is the memory it was called on.
C13_ArgumentsRefused ==
    Entered =>
        /\ NoBuiltinSet =>
              (pc = "done" /\ result.err = "FillMemoryNoBuiltinSet" /\ memory = entry)
        /\ MismatchedInstanceDef =>
              (pc = "done" /\ result.err = "ModBuiltinsMismatchedInstanceDef"
               /\ memory = entry)
        /\ result.err = "FillMemoryNoBuiltinSet" => NoBuiltinSet
        /\ result.err = "ModBuiltinsMismatchedInstanceDef" => MismatchedInstanceDef

\* C13: two builtins of different word_bit_len, whose headers ask for nothing
\* fill_memory could not do, were refused
C13_Witness ==
    /\ MismatchedInstanceDef
    /\ result.err = "ModBuiltinsMismatchedInstanceDef"
    /\ memory = entry
    /\ read_inputs(add_mod.runner, memory, add_mod.ptr).err = "Ok"

----------------------------------------------------------------------------
(* fill_memory, the first header's n: C14 *)

\* the first header of side s in the memory the call started on
FirstHeader(s) == HeaderAt(entry, SideArgOf(s).ptr[1], 0, SideBits(s))
FirstN(s) == FirstHeader(s).n[3]

\* what a memory holds in one segment
SegmentOf(mem, seg) == [a \in {x \in DOMAIN mem : x[1] = seg} |-> mem[a]]

\* nothing was written in the builtin segment or the offsets table of side s
Unwritten(s) ==
    /\ SegmentOf(memory, SideArgOf(s).ptr[1]) = SegmentOf(entry, SideArgOf(s).ptr[1])
    /\ SegmentOf(memory, FirstHeader(s).offsets_ptr[2]) =
          SegmentOf(entry, FirstHeader(s).offsets_ptr[2])

\* fill_memory got to the inputs of side s
InputsReached(s) ==
    \/ s = "add"
    \/ ~add_mod.some
    \/ FillBuiltinInputs(entry, add_mod).err = "Ok"

\* side s is present, the call passed the tests of its arguments, and the
\* first header of s is one read_inputs accepts
FirstHeaderRead(s) ==
    /\ Entered
    /\ SideArgOf(s).some
    /\ ~MismatchedInstanceDef
    /\ HeaderOk(FirstHeader(s))

\* C14: for a builtin whose first header holds n > FILL_MEMORY_MAX fill_memory
\* fails with FillMemoryMaxExceeded, whether batch_size divides n or not; with
\* n <= FILL_MEMORY_MAX that batch_size does not divide it fails with
\* SafeDivFail; in both cases no cell of that builtin's segment or offsets
\* table is written.
C14_RejectedNWritesNothing ==
    \A s \in Sides : FirstHeaderRead(s) =>
        /\ FirstN(s) > FILL_MEMORY_MAX =>
              /\ Unwritten(s)
              /\ result.err # "Ok"
              /\ InputsReached(s) => result.err = "FillMemoryMaxExceeded"
        /\ (FirstN(s) <= FILL_MEMORY_MAX /\ FirstN(s) % SideArgOf(s).runner.batch_size # 0) =>
              /\ Unwritten(s)
              /\ result.err # "Ok"
              /\ InputsReached(s) => result.err = "SafeDivFail"
        /\ (InputsReached(s) /\ result.err \in {"FillMemoryMaxExceeded", "SafeDivFail"}
             /\ (s = "mul" \/ ~mul_mod.some)) =>
              \/ FirstN(s) > FILL_MEMORY_MAX
              \/ FirstN(s) % SideArgOf(s).runner.batch_size # 0

\* C14: the add builtin's headers and offsets were written, then the mul
\* builtin's n, too large and not a multiple of batch_size, was rejected
C14_Witness ==
    /\ FirstHeaderRead("mul")
    /\ add_mod.some
    /\ memory # entry
    /\ FirstN("mul") > FILL_MEMORY_MAX
    /\ FirstN("mul") % mul_mod.runner.batch_size # 0
    /\ result.err = "FillMemoryMaxExceeded"
    /\ Unwritten("mul")

----------------------------------------------------------------------------
(* air_private_input: C15 *)

\* what a tolerant read reports of a cell: a default for an absent or
\* ill-typed one
CellInt(mem, addr) == IF IsInt(Get(mem, addr)) THEN Get(mem, addr)[3] ELSE 0
CellUsize(mem, addr) == IF CellInt(mem, addr) > UsizeMax THEN 0 ELSE CellInt(mem, addr)
CellPtr(mem, addr) ==
    IF IsPtr(Get(mem, addr)) THEN <<Get(mem, addr)[2], Get(mem, addr)[3]>> ELSE <<0, 0>>

\* the used size air_private_input went by
AirSize == IF air.size = NoneValue THEN 0 ELSE air.size

\* instance inst is header number i of the segment, read tolerantly
AirHeaderReported(inst, i) ==
    /\ inst.index = i
    /\ \A k \in 1..N_WORDS :
          inst.p_values[k] = CellInt(memory, <<add_mod.runner.base, INPUT_CELLS * i + (k - 1)>>)
    /\ inst.values_ptr =
          CellPtr(memory, <<add_mod.runner.base, INPUT_CELLS * i + VALUES_PTR_OFFSET>>)
    /\ inst.offsets_ptr =
          CellPtr(memory, <<add_mod.runner.base, INPUT_CELLS * i + OFFSETS_PTR_OFFSET>>)
    /\ inst.n = CellUsize(memory, <<add_mod.runner.base, INPUT_CELLS * i + N_OFFSET>>)

\* the batch of inst has batch_size entries keyed 0..batch_size-1, each the
\* offsets and the words of its three operands, read tolerantly
AirBatchReported(inst) ==
    /\ DOMAIN inst.batch = 0..(add_mod.runner.batch_size - 1)
    /\ \A j \in DOMAIN inst.batch : \A v \in 0..2 :
          /\ inst.offsets_ptr[2] + 3 * j + v <= UsizeMax =>
                inst.batch[j][v].offset =
                    CellUsize(memory, AddrAdd(inst.offsets_ptr, 3 * j + v))
          /\ \A i \in 0..(N_WORDS - 1) :
                inst.values_ptr[2] + inst.batch[j][v].offset + i <= UsizeMax =>
                    inst.batch[j][v].words[i + 1] =
                        CellInt(memory, AddrAdd(inst.values_ptr, inst.batch[j][v].offset + i))

\* C15: air_private_input is total and read-only: for any memory and any used
\* size s (unknown taken as 0) it returns one Mod private input of floor(s/7)
\* instances with indices 0, 1, .., each with batch_size batch entries keyed
\* 0..batch_size-1, every absent or ill-typed cell reported as a zero or
\* default value instead of an error, and the memory is not modified.
C15_TotalAndTolerant ==
    pc = "emitted" =>
        /\ air.res.err = "Ok"
        /\ Len(air.res.instances) = AirSize \div INPUT_CELLS
        /\ \A k \in 1..Len(air.res.instances) :
              /\ AirHeaderReported(air.res.instances[k], k - 1)
              /\ AirBatchReported(air.res.instances[k])
        /\ memory = entry

----------------------------------------------------------------------------
(* ec_negate: C16 *)

\* the signed integer a felt stands for
Signed(v) == IF 2 * v > PRIME THEN v - PRIME ELSE v

\* the three cells of ids.point.y all hold integers
PointYPresent == \A i \in 3..5 : IsInt(Get(memory, AddrAdd(ValuesPtr, i)))

\* y, packed from the cells at point + 3 .. point + 5
PointY ==
    Signed(Get(memory, AddrAdd(ValuesPtr, 3))[3])
    + BASE * Signed(Get(memory, AddrAdd(ValuesPtr, 4))[3])
    + BASE * BASE * Signed(Get(memory, AddrAdd(ValuesPtr, 5))[3])

\* C16: ec_negate stores in the scope variable 'value' the number (-y) mod
\* SECP_P, y packed from the three limbs of ids.point.y: it lies in
\* [0, SECP_P) and y + value is a multiple of SECP_P, for every y, zero,
\* negative or >= SECP_P.
C16_NegatedModSecpP ==
    (pc = "hinted" /\ PointYPresent) =>
        /\ scope.err = "Ok"
        /\ scope.value \in 0..(SECP_P - 1)
        /\ \E q \in (0 - BASE * BASE * PRIME)..(BASE * BASE * PRIME) :
              PointY + scope.value = q * SECP_P
        /\ PointY = 0 => scope.value = 0

\* C16: a y above SECP_P was negated
C16_Witness ==
    /\ pc = "hinted"
    /\ PointYPresent
    /\ PointY > SECP_P
    /\ scope.value = SECP_P - (PointY - SECP_P * (PointY \div SECP_P))
    /\ scope.value > 0

----------------------------------------------------------------------------
(* The deduction loop: C17 *)

SideIndex(s) == IF s = "add" THEN add_mod_index ELSE mul_mod_index
SideTarget(s) == IF s = "add" THEN add_mod_n ELSE mul_mod_n
LoopBits == mod_runner(add_mod, mul_mod).word_bit_len

\* the address of operand k of triple t of side s
OperandAddr(s, t, k) ==
    AddrAdd(SideInputs(s).values_ptr,
            Get(entry, AddrAdd(SideInputs(s).offsets_ptr, 3 * t + k))[3])

\* the operand at addr is in memory once the first i add triples and the
\* first j mul triples are completed
PresentAt(addr, i, j) ==
    \/ StoredValue(entry, addr, LoopBits) # NoneValue
    \/ \E t \in 0..(i - 1) : \E k \in 0..2 : OperandAddr("add", t, k) = addr
    \/ \E t \in 0..(j - 1) : \E k \in 0..2 : OperandAddr("mul", t, k) = addr

\* triple t of side s has at most one missing operand at that point
FillableAt(s, t, i, j) ==
    Cardinality({k \in 0..2 : ~PresentAt(OperandAddr(s, t, k), i, j)}) <= 1

\* some interleaving of the triples left from (i, j) on, each side in index
\* order, meets every triple with at most one missing operand
RECURSIVE CanFinish(_, _)
CanFinish(i, j) ==
    \/ i = add_mod_n /\ j = mul_mod_n
    \/ i < add_mod_n /\ FillableAt("add", i, i, j) /\ CanFinish(i + 1, j)
    \/ j < mul_mod_n /\ FillableAt("mul", j, i, j) /\ CanFinish(i, j + 1)

\* the operands the head triple of side s misses, in memory mem
HeadMissing(mem, s) == Missing(Operands(mem, SideInputs(s), SideIndex(s), LoopBits))

\* both heads wait, the mul head misses one operand only, and the add head
\* misses that operand too
AddLacksWhatMulProduces ==
    /\ pc = "loop"
    /\ add_mod_index < add_mod_n
    /\ mul_mod_index < mul_mod_n
    /\ Cardinality(HeadMissing(memory, "mul")) = 1
    /\ \E k \in HeadMissing(memory, "add") : \E m \in HeadMissing(memory, "mul") :
          OperandAddr("add", add_mod_index, k) = OperandAddr("mul", mul_mod_index, m)

\* the step ends the call with an error other than FillMemoryCoudNotFillTable
EndsWithError ==
    /\ pc' = "done"
    /\ result'.err \notin {"Ok", "none", "FillMemoryCoudNotFillTable"}

AdvancesMul ==
    /\ pc' = "loop"
    /\ mul_mod_index' = mul_mod_index + 1
    /\ add_mod_index' = add_mod_index

AdvancesAdd ==
    /\ pc' = "loop"
    /\ add_mod_index' = add_mod_index + 1
    /\ mul_mod_index' = mul_mod_index

\* the call does not end on FillMemoryCoudNotFillTable when an interleaving
\* exists
FinishesIfCanFinish ==
    (pc = "done" /\ result.err = "FillMemoryCoudNotFillTable") => ~CanFinish(0, 0)

\* the mul cursor has just advanced past a triple the add head, then short of
\* two operands or more, was waiting for, and the add head now misses one
\* operand at most
AddHeadUnblocked ==
    /\ pc = "loop"
    /\ last.side = "mul"
    /\ last.advanced
    /\ add_mod_index < add_mod_n
    /\ Cardinality(HeadMissing(last.before, "add")) >= 2
    /\ Cardinality(HeadMissing(memory, "add")) <= 1

----------------------------------------------------------------------------
(* The deduction loop: C18 *)

\* the loop run to its end from memory mem and cursors (i, j)
RECURSIVE LoopOutcome(_, _, _)
LoopOutcome(mem, i, j) ==
    IF ~(i < add_mod_n \/ j < mul_mod_n)
    THEN [err |-> "Ok", mem |-> mem, add_mod_index |-> i, mul_mod_index |-> j]
    ELSE LET it == LoopBody(mod_runner(add_mod, mul_mod), mem, add_mod_inputs, add_mod_n, i,
                            mul_mod_inputs, mul_mod_n, j)
         IN  IF it.err # "Ok"
             THEN [err |-> it.err, mem |-> it.mem, add_mod_index |-> i, mul_mod_index |-> j]
             ELSE LoopOutcome(it.mem,
                              IF it.side = "add" THEN i + 1 ELSE i,
                              IF it.side = "mul" THEN j + 1 ELSE j)

\* the final memory and result are those of the memory and arguments the call
\* was made on
SameRunSameOutcome ==
    LET e == FillMemoryEntry(entry, add_mod, mul_mod)
        o == LoopOutcome(e.mem, 0, 0)
    IN  /\ (pc = "loop" /\ e.err = "Ok") =>
              LoopOutcome(memory, add_mod_index, mul_mod_index) = o
        /\ (pc \in {"done", "checked"} /\ e.err # "Ok") =>
              memory = e.mem /\ result.err = e.err
        /\ (pc \in {"done", "checked"} /\ e.err = "Ok") =>
              /\ memory = o.mem
              /\ result.err = o.err
              /\ o.err # "Ok" => /\ result.add_mod_index = o.add_mod_index
                                 /\ result.mul_mod_index = o.mul_mod_index

\* fill_value is called on the mul head only at add_mod_index = add_mod_n or
\* after the add head, short of two operands or more, made it return false
MulTriedAfterAdd ==
    (pc = "loop" /\ last'.side = "mul" /\ last' # last) =>
        \/ add_mod_index = add_mod_n
        \/ /\ Cardinality(HeadMissing(memory, "add")) >= 2
           /\ fill_value(mod_runner(add_mod, mul_mod), memory, add_mod_inputs, add_mod_index,
                         Operation("Add"), Operation("Sub")).ret = FALSE

\* the head of side s lacks one operand and some v in [0, p) completes it
HeadDeducible(s) ==
    /\ SideIndex(s) < SideTarget(s)
    /\ SideInputs(s).p > 0
    /\ Cardinality(HeadMissing(memory, s)) = 1
    /\ Consistent(SideType(s), Operands(memory, SideInputs(s), SideIndex(s), LoopBits),
                  SideInputs(s).p) # {}

\* C18: in every iteration the add side is tried before the mul side:
\* fill_value on the mul head is attempted only when add_mod_index has reached
\* add_mod_n or the add side's fill_value just returned false; when both heads
\* are deducible the add cursor advances; two runs of fill_memory from the
\* same memory and arguments end in the same memory and result.
C18_AddFirstDeterministic ==
    /\ [][MulTriedAfterAdd]_vars
    /\ [][(pc = "loop" /\ HeadDeducible("add") /\ HeadDeducible("mul")) => AdvancesAdd]_vars
    /\ []SameRunSameOutcome

\* C18, the order of the calls and the determinism of the run alone
C18_AddTriedFirst ==
    /\ [][MulTriedAfterAdd]_vars
    /\ []SameRunSameOutcome

----------------------------------------------------------------------------
(* The deduction loop: C19 *)

\* side s cannot advance: its cursor is at its target, or its head triple
\* misses two operands or more
HeadBlocked(s) ==
    \/ SideIndex(s) = SideTarget(s)
    \/ Cardinality(HeadMissing(memory, s)) >= 2

\* an iteration fails with FillMemoryCoudNotFillTable exactly when both sides
\* are blocked, and then reports the cursors
FailsWhenBothBlocked ==
    (pc = "loop" /\ (add_mod_index < add_mod_n \/ mul_mod_index < mul_mod_n)) =>
        /\ (pc' = "done" /\ result'.err = "FillMemoryCoudNotFillTable")
               <=> (HeadBlocked("add") /\ HeadBlocked("mul"))
        /\ result'.err = "FillMemoryCoudNotFillTable" =>
               /\ result'.add_mod_index = add_mod_index
               /\ result'.mul_mod_index = mul_mod_index

\* the failure is the loop's, and the reported cursors count the triples
\* completed on each side
ReportedCursors ==
    result.err = "FillMemoryCoudNotFillTable" =>
        /\ last.err = "FillMemoryCoudNotFillTable"
        /\ result.add_mod_index = add_mod_index
        /\ result.mul_mod_index = mul_mod_index
        /\ ~(add_mod_index = add_mod_n /\ mul_mod_index = mul_mod_n)
        /\ \A t \in 0..(add_mod_index - 1) :
              Missing(Operands(memory, add_mod_inputs, t, LoopBits)) = {}
        /\ \A t \in 0..(mul_mod_index - 1) :
              Missing(Operands(memory, mul_mod_inputs, t, LoopBits)) = {}

\* C19: fill_memory fails with FillMemoryCoudNotFillTable(i, j) exactly when
\* the loop reaches cursors (i, j), not both at their targets, where the add
\* side cannot advance (i = add_mod_n or the add triple i misses two operands
\* or more) and the mul side cannot advance (j = mul_mod_n or the mul triple
\* j misses two operands or more); i and j are the cursors at that moment.
C19_FailsWhenBothBlocked ==
    /\ [][FailsWhenBothBlocked]_vars
    /\ []ReportedCursors

\* C19: the loop completed a triple of each side and then failed on two
\* heads that miss two operands or more
C19_Witness ==
    /\ pc = "done"
    /\ result.err = "FillMemoryCoudNotFillTable"
    /\ result.add_mod_index >= 1
    /\ result.mul_mod_index >= 1
    /\ add_mod_index < add_mod_n
    /\ mul_mod_index < mul_mod_n
    /\ Cardinality(HeadMissing(memory, "add")) >= 2
    /\ Cardinality(HeadMissing(memory, "mul")) >= 2

----------------------------------------------------------------------------
(* The deduction loop: C20 *)

\* the iteration advances a cursor
Advances == pc = "loop" /\ pc' = "loop" /\ (AdvancesAdd \/ AdvancesMul)

\* the cells the iteration writes that were absent before it
NewCells == DOMAIN memory' \ DOMAIN memory

\* the iteration changes no cell that was in memory before it
KeepsCells == \A a \in DOMAIN memory : memory'[a] = memory[a]

\* the N_WORDS cells of operand k of the head triple of side s
HeadCells(s, k) ==
    {AddrAdd(OperandAddr(s, SideIndex(s), k), i) : i \in 0..(N_WORDS - 1)}

\* the iteration on the head of side s writes the one operand the triple
\* misses, or nothing on a triple that misses none
WritesMissingOperand(s) ==
    /\ KeepsCells
    /\ \/ HeadMissing(memory, s) = {} /\ memory' = memory
       \/ /\ Cardinality(HeadMissing(memory, s)) = 1
          /\ NewCells # {}
          /\ \A k \in HeadMissing(memory, s) : NewCells \subseteq HeadCells(s, k)
          /\ HeadMissing(memory', s) = {}

\* C20, as stated: every iteration of the deduction loop that advances a
\* cursor writes at least one memory cell that was absent before it.
C20_AdvanceWrites ==
    [][Advances => NewCells # {}]_vars

\* C20, amended: every iteration that advances a cursor either writes the
\* one missing operand of the head triple it advances past, at least one cell
\* of which was absent before, or finds the three operands of that triple in
\* memory and writes nothing; no cell in memory before it is changed.
C20_AdvanceWritesOrAllKnown ==
    [][Advances => /\ AdvancesAdd => WritesMissingOperand("add")
                   /\ AdvancesMul => WritesMissingOperand("mul")]_vars

\* C20: an iteration advanced a cursor past a triple with its three operands
\* in memory and wrote nothing, after another had deduced an operand
C20_Witness ==
    /\ last.advanced
    /\ last.err = "Ok"
    /\ memory = last.before
    /\ deduced # {}
    /\ Missing(Operands(last.before, SideInputs(last.side), last.index, LoopBits)) = {}

----------------------------------------------------------------------------
(* fill_value: C21 *)

\* fill_value on triple t of side s, in the memory of the state
FillValueOn(s, t) ==
    fill_value(mod_runner(add_mod, mul_mod), memory, SideInputs(s), t,
               IF s = "add" THEN Operation("Add") ELSE Operation("Mul"),
               IF s = "add" THEN Operation("Sub") ELSE DivMod(mul_mod_inputs.p))

\* the operands of triple t of side s of which some limb is absent from mem
AbsentOperands(mem, s, t) ==
    {k \in 0..2 : \E i \in 0..(N_WORDS - 1) :
        Get(mem, AddrAdd(OperandAddr(s, t, k), i)) = Absent}

\* what C21 says of a call of fill_value that returned r on a triple with the
\* operands of absent missing
FalseIffTwoMissing(r, absent) ==
    /\ r.err = "Ok" => (r.ret = FALSE <=> Cardinality(absent) >= 2)
    /\ (r.err = "Ok" /\ (r.ret = FALSE \/ absent = {})) => r.mem = memory

\* C21: fill_value returns false if and only if two or more of the three
\* operands of the triple are missing (an operand is missing when one of its
\* N_WORDS limbs is absent); when it returns false, and when the three
\* operands are present (it then returns true), it writes no memory cell.
C21_FalseIffTwoMissing ==
    /\ \A s \in Sides : \A t \in 0..(SideTarget(s) - 1) :
          FalseIffTwoMissing(FillValueOn(s, t), AbsentOperands(memory, s, t))
    /\ last.err = "FillMemoryCoudNotFillTable" =>
          /\ memory = last.before
          /\ last.index < SideTarget(last.side) =>
                Cardinality(AbsentOperands(last.before, last.side, last.index)) >= 2
    /\ (last.advanced /\ AbsentOperands(last.before, last.side, last.index) = {}) =>
          memory = last.before

\* C21: fill_value returned false on a triple of which one operand lacks a
\* single limb and another all of them
C21_Witness ==
    /\ pc = "done"
    /\ last.err = "FillMemoryCoudNotFillTable"
    /\ last.index < SideTarget(last.side)
    /\ FillValueOn(last.side, last.index).ret = FALSE
    /\ \E k \in AbsentOperands(memory, last.side, last.index) :
          \E i \in 0..(N_WORDS - 1) :
             Get(memory, AddrAdd(OperandAddr(last.side, last.index, k), i)) # Absent

----------------------------------------------------------------------------
(* fill_value: C22 *)

\* the value the cells at addr stand for in mem, limb by limb
WrittenValue(mem, addr) == LimbSum(mem, addr, LoopBits, 0)

\* the last iteration wrote operand k of its triple
WroteOperand(k) ==
    /\ last.advanced
    /\ memory # last.before
    /\ k \in AbsentOperands(last.before, last.side, last.index)

\* C22: every value v that fill_value writes into a missing operand satisfies
\* 0 <= v < p for the modulus p of the inputs it was called with, each of its
\* N_WORDS limbs is below shift, and write_n_words_value called from
\* fill_value never fails with WriteNWordsValueNotZero (p < shift^N_WORDS).
C22_WrittenBelowModulus ==
    /\ \A k \in 0..2 : WroteOperand(k) =>
          /\ \A i \in 0..(N_WORDS - 1) :
                IsLimb(Get(memory, AddrAdd(OperandAddr(last.side, last.index, k), i)),
                       LoopBits)
          /\ WrittenValue(memory, OperandAddr(last.side, last.index, k)) >= 0
          /\ WrittenValue(memory, OperandAddr(last.side, last.index, k))
                < SideInputs(last.side).p
    /\ last.err # "WriteNWordsValueNotZero"
    /\ \A s \in Sides :
          /\ SideInputs(s).p < (2 ^ LoopBits) ^ N_WORDS
          /\ \A t \in 0..(SideTarget(s) - 1) :
                FillValueOn(s, t).err # "WriteNWordsValueNotZero"

\* C22: the add side wrote c for operands a and b whose sum is p or more
C22_Witness ==
    /\ last.side = "add"
    /\ WroteOperand(2)
    /\ Operands(last.before, add_mod_inputs, last.index, LoopBits)[0]
          + Operands(last.before, add_mod_inputs, last.index, LoopBits)[1]
          >= add_mod_inputs.p
    /\ WrittenValue(memory, OperandAddr("add", last.index, 2)) < add_mod_inputs.p

----------------------------------------------------------------------------
(* read_n_words_value: C23 *)

\* the cell at addr + i of the codec call
CodecCell(i) == Get(memory, AddrAdd(codec.addr, i))

\* the cell at addr + i is the first, from addr on, that is no limb
FirstDeciding(i) ==
    /\ ~IsLimb(CodecCell(i), WordBitLen)
    /\ \A k \in 0..(i - 1) : IsLimb(CodecCell(k), WordBitLen)

\* the read stopped at the cell addr + i: the words are the limbs before it
StoppedAt(i) ==
    /\ codec.rres.value = NoneValue
    /\ \A k \in 0..(N_WORDS - 1) :
          codec.rres.words[k + 1] = (IF k < i THEN CodecCell(k)[3] ELSE 0)

\* C23: read_n_words_value(addr) returns Some(value) if and only if the
\* N_WORDS cells from addr on are integers below shift, and then value is the
\* sum of limb_i * shift^i; otherwise the first cell, in address order, that
\* is absent (Ok with None), a pointer (ExpectedInteger) or an integer of
\* shift or more decides, and the cells after it are not examined.
C23_FirstCellDecides ==
    codec.phase = "read" =>
        /\ (codec.rres.err = "Ok" /\ codec.rres.value # NoneValue)
              <=> \A i \in 0..(N_WORDS - 1) : IsLimb(CodecCell(i), WordBitLen)
        /\ (\A i \in 0..(N_WORDS - 1) : IsLimb(CodecCell(i), WordBitLen)) =>
              /\ codec.rres.value = LimbSum(memory, codec.addr, WordBitLen, 0)
              /\ \A i \in 0..(N_WORDS - 1) : codec.rres.words[i + 1] = CodecCell(i)[3]
        /\ \A i \in 0..(N_WORDS - 1) : FirstDeciding(i) =>
              /\ StoppedAt(i)
              /\ IsAbsent(CodecCell(i)) => codec.rres.err = "Ok"
              /\ IsPtr(CodecCell(i)) =>
                    /\ codec.rres.err = "ExpectedInteger"
                    /\ codec.rres.at = AddrAdd(codec.addr, i)
              /\ IsInt(CodecCell(i)) =>
                    /\ codec.rres.err = "WordExceedsModBuiltinWordBitLen"
                    /\ codec.rres.at = AddrAdd(codec.addr, i)

\* C23: a read that returned Ok with None at an absent second cell, a
\* pointer and an integer of shift in the cells after it
C23_Witness ==
    /\ codec.phase = "read"
    /\ IsLimb(CodecCell(0), WordBitLen)
    /\ CodecCell(0)[3] = 1
    /\ IsAbsent(CodecCell(1))
    /\ IsPtr(CodecCell(2))
    /\ IsInt(CodecCell(3)) /\ CodecCell(3)[3] >= CodecShift
    /\ codec.rres.err = "Ok"
    /\ codec.rres.value = NoneValue

----------------------------------------------------------------------------
(* read_inputs: C24 *)

\* the header of instance i of the checked runner
HdrAddr(i) == <<sec.runner.base, i * INPUT_CELLS>>
HdrCell(i, o) == Get(memory, AddrAdd(HdrAddr(i), o))

\* both pointers of the header are pointers and its n is an integer that
\* fits a usize
HdrFieldsTyped(i) ==
    /\ IsPtr(HdrCell(i, VALUES_PTR_OFFSET))
    /\ IsPtr(HdrCell(i, OFFSETS_PTR_OFFSET))
    /\ IsInt(HdrCell(i, N_OFFSET))
    /\ HdrCell(i, N_OFFSET)[3] <= UsizeMax

\* a limb of p is absent and the limbs before it are below shift
AbsentPLimb(i) ==
    \E w \in 0..(N_WORDS - 1) :
        /\ IsAbsent(HdrCell(i, w))
        /\ \A k \in 0..(w - 1) : IsLimb(HdrCell(i, k), sec.runner.word_bit_len)

\* read_inputs returned r on the header of instance i: the order of its tests
ReadInputsOrder(r, i) ==
    /\ ~IsPtr(HdrCell(i, VALUES_PTR_OFFSET)) =>
          /\ r.err \in {"UnknownMemoryCell", "ExpectedRelocatable"}
          /\ r.at = AddrAdd(HdrAddr(i), VALUES_PTR_OFFSET)
    /\ (IsPtr(HdrCell(i, VALUES_PTR_OFFSET)) /\ ~IsPtr(HdrCell(i, OFFSETS_PTR_OFFSET))) =>
          /\ r.err \in {"UnknownMemoryCell", "ExpectedRelocatable"}
          /\ r.at = AddrAdd(HdrAddr(i), OFFSETS_PTR_OFFSET)
    /\ (/\ IsPtr(HdrCell(i, VALUES_PTR_OFFSET))
        /\ IsPtr(HdrCell(i, OFFSETS_PTR_OFFSET))
        /\ ~HdrFieldsTyped(i)) =>
          /\ r.err \in {"UnknownMemoryCell", "ExpectedInteger", "Felt252ToUsizeConversion"}
          /\ r.at = AddrAdd(HdrAddr(i), N_OFFSET)
    /\ (HdrFieldsTyped(i) /\ HdrCell(i, N_OFFSET)[3] = 0) =>
          r.err = "ModBuiltinNLessThanOne"
    /\ (HdrFieldsTyped(i) /\ HdrCell(i, N_OFFSET)[3] >= 1 /\ AbsentPLimb(i)) =>
          /\ r.err = "ModBuiltinMissingValue"
          /\ r.at = AddrAdd(HdrAddr(i), N_WORDS)
    /\ r.err = "Ok" =>
          /\ r.inputs.n >= 1
          /\ r.inputs.n = HdrCell(i, N_OFFSET)[3]
          /\ \A w \in 0..(N_WORDS - 1) :
                /\ IsLimb(HdrCell(i, w), sec.runner.word_bit_len)
                /\ r.inputs.p_values[w + 1] = HdrCell(i, w)[3]

\* C24: read_inputs(addr) validates in a fixed order: values_ptr at addr+4 and
\* offsets_ptr at addr+5 must be pointers, n at addr+6 an integer, then n = 0
\* yields ModBuiltinNLessThanOne, and only then is p decoded, an absent limb
\* of p yielding ModBuiltinMissingValue pointing at addr+N_WORDS; a header
\* returned Ok has n >= 1 and every limb of p below shift.
C24_ReadInputsOrder ==
    (pc # "idle" /\ sec.size # NoneValue) =>
        /\ \A i \in 0..1 : ReadInputsOrder(read_inputs(sec.runner, memory, HdrAddr(i)), i)
        /\ (sec.size >= 1 /\ read_inputs(sec.runner, memory, HdrAddr(0)).err # "Ok") =>
              /\ sec.res.err = read_inputs(sec.runner, memory, HdrAddr(0)).err
              /\ sec.res.instance = 0
        /\ sec.res.err = "Ok" =>
              \A i \in 0..(div_ceil(sec.size, INPUT_CELLS) - 1) :
                  read_inputs(sec.runner, memory, HdrAddr(i)).err = "Ok"

\* C24: a header with n = 0 and a limb of p absent was read and refused with
\* ModBuiltinNLessThanOne
C24_Witness ==
    /\ pc = "checked"
    /\ sec.size = INPUT_CELLS
    /\ HdrFieldsTyped(0)
    /\ HdrCell(0, N_OFFSET)[3] = 0
    /\ AbsentPLimb(0)
    /\ sec.res.err = "ModBuiltinNLessThanOne"
    /\ sec.res.instance = 0

----------------------------------------------------------------------------
(* read_memory_vars: C25 *)

\* the header of instance i as read_inputs returns it
HdrInputs(i) == read_inputs(sec.runner, memory, HdrAddr(i))

\* the three offsets of triple j of the table at offsets_ptr are usizes
OffsetsTyped(inputs, j) ==
    \A k \in 0..2 : /\ IsInt(Get(memory, AddrAdd(inputs.offsets_ptr, 3 * j + k)))
                     /\ Get(memory, AddrAdd(inputs.offsets_ptr, 3 * j + k))[3] <= UsizeMax

\* the address of operand k of triple j of the tables of inputs
VarAddr(inputs, j, k) ==
    AddrAdd(inputs.values_ptr, Get(memory, AddrAdd(inputs.offsets_ptr, 3 * j + k))[3])

\* the operand at addr has its N_WORDS limbs
FullOperand(addr) ==
    \A w \in 0..(N_WORDS - 1) : IsLimb(Get(memory, AddrAdd(addr, w)), sec.runner.word_bit_len)

\* a limb of the operand at addr is absent, the limbs before it being limbs
MissingOperand(addr) ==
    \E w \in 0..(N_WORDS - 1) :
        /\ IsAbsent(Get(memory, AddrAdd(addr, w)))
        /\ \A q \in 0..(w - 1) :
              IsLimb(Get(memory, AddrAdd(addr, q)), sec.runner.word_bit_len)

\* read_memory_vars returned r on triple j: the first of a, b, c that is
\* missing is reported
FirstMissingReported(r, inputs, j) ==
    \A k \in 0..2 :
        (/\ MissingOperand(VarAddr(inputs, j, k))
         /\ \A q \in 0..(k - 1) : FullOperand(VarAddr(inputs, j, q)))
        => /\ r.err = "ModBuiltinMissingValue"
           /\ r.at = AddrAdd(VarAddr(inputs, j, k), N_WORDS)

\* C25: read_memory_vars fails with ModBuiltinMissingValue pointing at the
\* operand's address + N_WORDS when a limb of a, b or c of the triple is
\* absent (operands examined in the order a, b, c); so the security checks
\* never return Ok while a triple of a checked batch misses an operand.
C25_MissingOperandRefused ==
    (pc # "idle" /\ sec.size # NoneValue) =>
        /\ \A i \in 0..1 : \A j \in 0..(sec.runner.batch_size - 1) :
              (HdrInputs(i).err = "Ok" /\ OffsetsTyped(HdrInputs(i).inputs, j)) =>
                  FirstMissingReported(
                      read_memory_vars(sec.runner, memory, HdrInputs(i).inputs.values_ptr,
                                       HdrInputs(i).inputs.offsets_ptr, j),
                      HdrInputs(i).inputs, j)
        /\ (/\ sec.size >= 1
            /\ HdrInputs(0).err = "Ok"
            /\ OffsetsTyped(HdrInputs(0).inputs, 0)
            /\ \E k \in 0..2 :
                  /\ MissingOperand(VarAddr(HdrInputs(0).inputs, 0, k))
                  /\ \A q \in 0..(k - 1) : FullOperand(VarAddr(HdrInputs(0).inputs, 0, q)))
           => /\ sec.res.err = "ModBuiltinMissingValue"
              /\ sec.res.instance = 0
              /\ sec.res.batch = 0
        /\ sec.res.err = "Ok" =>
              \A i \in 0..(div_ceil(sec.size, INPUT_CELLS) - 1) :
              \A j \in 0..(sec.runner.batch_size - 1) : \A k \in 0..2 :
                  FullOperand(VarAddr(HdrInputs(i).inputs, j, k))

\* C25: the checks ran on a segment whose first triple has a and b each short
\* of one limb, and failed on a
C25_Witness ==
    /\ pc = "checked"
    /\ sec.size = 2 * INPUT_CELLS
    /\ HdrInputs(0).err = "Ok"
    /\ MissingOperand(VarAddr(HdrInputs(0).inputs, 0, 0))
    /\ MissingOperand(VarAddr(HdrInputs(0).inputs, 0, 1))
    /\ Get(memory, VarAddr(HdrInputs(0).inputs, 0, 0)) # Absent
    /\ sec.res.err = "ModBuiltinMissingValue"
    /\ sec.res.instance = 0
    /\ sec.res.batch = 0
    /\ read_memory_vars(sec.runner, memory, HdrInputs(0).inputs.values_ptr,
                        HdrInputs(0).inputs.offsets_ptr, 0).at
          = AddrAdd(VarAddr(HdrInputs(0).inputs, 0, 0), N_WORDS)

----------------------------------------------------------------------------
(* The ends of the chains of instances: C28 *)

\* the instances the checks went through
CheckedInstances == 0..(div_ceil(sec.size, INPUT_CELLS) - 1)

ChecksReturnedOk == pc # "idle" /\ sec.size # NoneValue /\ sec.res.err = "Ok"

\* C28, as stated: if run_additional_security_checks returns Ok, every instance
\* of the segment whose n is <= batch_size has n equal to batch_size: every
\* chain of consecutive instances ends with n == batch_size.
C28_EveryChainEndsOnBatch ==
    ChecksReturnedOk =>
        \A i \in CheckedInstances :
            HdrInputs(i).inputs.n <= sec.runner.batch_size =>
                HdrInputs(i).inputs.n = sec.runner.batch_size

\* C28, amended: if run_additional_security_checks returns Ok, the last
\* instance of the segment has n equal to batch_size, and every instance that
\* follows one with n > batch_size has that one's p and its n less batch_size;
\* an instance with n < batch_size that is not the last one is accepted.
C28_LastChainEndsOnBatch ==
    ChecksReturnedOk =>
        \A i \in CheckedInstances :
            /\ i = div_ceil(sec.size, INPUT_CELLS) - 1 =>
                  HdrInputs(i).inputs.n = sec.runner.batch_size
            /\ (i > 0 /\ HdrInputs(i - 1).inputs.n > sec.runner.batch_size) =>
                  /\ HdrInputs(i).inputs.n
                        = HdrInputs(i - 1).inputs.n - sec.runner.batch_size
                  /\ HdrInputs(i).inputs.p_values = HdrInputs(i - 1).inputs.p_values

\* C28: the checks returned Ok on two instances, the first with n below
\* batch_size
C28_Witness ==
    /\ ChecksReturnedOk
    /\ sec.size = 2 * INPUT_CELLS
    /\ HdrInputs(0).inputs.n < sec.runner.batch_size
    /\ HdrInputs(1).inputs.n = sec.runner.batch_size

----------------------------------------------------------------------------
(* The instances checked and the instances emitted: C30 *)

\* no cell of the runner's segment is at or beyond the used size
NothingBeyondSize ==
    \A a \in DOMAIN memory : a[1] = sec.runner.base => a[2] < sec.size

\* C30: whenever run_additional_security_checks returns Ok on a segment of
\* used size s with every cell at offset >= s absent, s is a multiple of
\* INPUT_CELLS, and the ceil(s/7) instances checked are the floor(s/7)
\* instances that air_private_input emits.
C30_CheckedAreEmitted ==
    (ChecksReturnedOk /\ NothingBeyondSize) =>
        /\ sec.size % INPUT_CELLS = 0
        /\ div_ceil(sec.size, INPUT_CELLS) = sec.size \div INPUT_CELLS
        /\ pc = "emitted" =>
              /\ air.size = sec.size
              /\ air.res.err = "Ok"
              /\ Len(air.res.instances) = div_ceil(sec.size, INPUT_CELLS)

\* C30: two instances were checked and air_private_input emitted two
C30_Witness ==
    /\ pc = "emitted"
    /\ ChecksReturnedOk
    /\ NothingBeyondSize
    /\ sec.size = 2 * INPUT_CELLS
    /\ Len(air.res.instances) = 2

----------------------------------------------------------------------------
(* One runner for both sides: C29 *)

\* the runner of side s with another batch_size
OwnRunner(s, bs) == [SideArgOf(s).runner EXCEPT !.batch_size = bs]

\* an iteration of the loop in which each side's fill_value is called on that
\* side's own runner, of batch_size add_bs and mul_bs
OwnIteration(add_bs, mul_bs) ==
    LET it == LoopBody(OwnRunner("add", add_bs), memory, add_mod_inputs, add_mod_n,
                       add_mod_index, mul_mod_inputs, mul_mod_n, mul_mod_index)
    IN  IF add_mod.some /\ (it.call = "add" \/ ~mul_mod.some)
        THEN it
        ELSE LoopMulSide(OwnRunner("mul", mul_bs), memory, mul_mod_inputs, mul_mod_n,
                         mul_mod_index)

\* the inputs of side s are those of its own header
OwnHeader(s) ==
    /\ SideInputs(s).p = StoredValue(memory, SideArgOf(s).ptr, LoopBits)
    /\ PtrCell(SideInputs(s).values_ptr[1], SideInputs(s).values_ptr[2])
          = Get(memory, AddrAdd(SideArgOf(s).ptr, VALUES_PTR_OFFSET))
    /\ PtrCell(SideInputs(s).offsets_ptr[1], SideInputs(s).offsets_ptr[2])
          = Get(memory, AddrAdd(SideArgOf(s).ptr, OFFSETS_PTR_OFFSET))

----------------------------------------------------------------------------
(* C26: every request of the Python thread is answered *)

\* the kind of result the Python method that sent the request accepts
AnswerKind(request) ==
    IF request.kind = "AddSegment" THEN "Segment"
    ELSE IF request.kind \in {"ReadMemory", "ReadIds"} THEN "ReadValue"
    ELSE "Success"

\* the request the Python thread is blocked on
Outstanding == py.sent[Len(py.sent)]

\* both threads are blocked in recv() on an empty channel whose sender the
\* other thread still holds: no step of either thread is possible
BothBlocked ==
    /\ py.hint = "running"
    /\ py.python = "wait"
    /\ py.vm = "loop"
    /\ py.operations = <<>>
    /\ py.results = <<>>

\* C26: while handle_messages runs its loop, a request the Python thread
\* waits on is either still on the operation channel or answered by exactly
\* one result of the matching kind on the result channel (ReadMemory and
\* ReadIds by ReadValue, WriteMemory, WriteIds and WriteVecArg by Success,
\* AddSegment by Segment), so the two threads are never both blocked -- also
\* for a ReadMemory of an absent cell.
C26_EveryRequestAnswered ==
    (py.hint = "running" /\ py.python = "wait" /\ py.vm = "loop") =>
        /\ ~BothBlocked
        /\ \/ py.operations = <<Outstanding>> /\ py.results = <<>>
           \/ /\ py.operations = <<>>
              /\ Len(py.results) = 1
              /\ py.results[1].kind = AnswerKind(Outstanding)

\* the same with the one request left out that nothing answers: every
\* request but a ReadMemory of an absent cell is answered
C26_AnsweredUnlessAbsentRead ==
    (py.hint = "running" /\ py.python = "wait" /\ py.vm = "loop"
        /\ ~(Outstanding.kind = "ReadMemory" /\ IsAbsent(Get(memory, Outstanding.addr)))) =>
        /\ ~BothBlocked
        /\ \/ py.operations = <<Outstanding>> /\ py.results = <<>>
           \/ /\ py.operations = <<>>
              /\ Len(py.results) = 1
              /\ py.results[1].kind = AnswerKind(Outstanding)

----------------------------------------------------------------------------
(* C27: execute_hint returns after End and after every operation is applied *)

\* the requests sent so far, End left out
Requests == SelectSeq(py.sent, LAMBDA op : op.kind # "End")

\* the cells a request writes when it is applied
WritesOf(op) ==
    IF op.kind = "WriteMemory" THEN (op.addr :> op.arg[1])
    ELSE IF op.kind = "WriteIds"
         THEN (IF op.name = "a" THEN <<1, 0>> ELSE <<1, 1>>) :> op.arg[1]
    ELSE IF op.kind = "WriteVecArg"
         THEN [a \in {AddrAdd(op.addr, i - 1) : i \in 1..Len(op.arg)} |->
                  op.arg[a[2] - op.addr[2] + 1]]
    ELSE EmptyMemory

\* the memory after the requests ops are applied, one after the other, to mem
RECURSIVE Replay(_, _)
Replay(mem, ops) ==
    IF ops = <<>> THEN mem
    ELSE Replay(WritesOf(Head(ops)) @@ mem, Tail(ops))

\* the Python thread ran the hint code to its end and sent End last
PythonFinished ==
    /\ py.python = "ended"
    /\ py.code = <<>>
    /\ py.sent # <<>>
    /\ py.sent[Len(py.sent)].kind = "End"
    /\ Len(Requests) = Len(py.sent) - 1

\* every request sent was applied to the VM, in the order sent, and answered
AllApplied ==
    /\ py.operations = <<>>
    /\ py.results = <<>>
    /\ py.received = Len(Requests)
    /\ memory = Replay(entry, Requests)
    /\ py.num_segments = 2 + Len(SelectSeq(Requests, LAMBDA op : op.kind = "AddSegment"))

\* C27: execute_hint returns only after the Python thread has run the hint
\* code to its end and sent End, and after the VM thread has applied every
\* operation sent before End, in the order sent; handle_messages returns Ok
\* only upon receiving End; and at most one request is sent but unanswered at
\* any time.
C27_ReturnsAfterEnd ==
    /\ py.hint = "returned" => (PythonFinished /\ py.vm = "returned" /\ AllApplied)
    /\ py.vm = "returned" => (PythonFinished /\ AllApplied)
    /\ py.python # "none" =>
          /\ Len(Requests) - py.received \in {0, 1}
          /\ Len(py.operations) + Len(py.results) <= 1

\* execute_hint has returned from a hint of MaxOps requests that wrote memory
C27_Witness ==
    /\ py.hint = "returned"
    /\ Len(Requests) = MaxOps
    /\ memory # entry
    /\ DOMAIN memory # DOMAIN entry

====
